---- MODULE Spec2Model ----
(***************************************************************************)
(* Service logbook: the stack micro-format codec, the form-value           *)
(* extractors, the category registry and the Add / Edit / Recategorize     *)
(* dialog flows.                                                           *)
(*                                                                         *)
(* A JavaScript string is a sequence of one-character strings.  A value    *)
(* that may be null, undefined, a string, a boolean, a number or a list is *)
(* a tagged tuple (JNull, JUndef, JStr(s), ...), so that values of         *)
(* different JavaScript types can be compared.                             *)
(***************************************************************************)
EXTENDS Integers, Sequences, FiniteSets, TLC

VARIABLES
    \* codec harness: a list of sub-records, its encoding, its decoding
    cShape, cItems, cFmt, cPhase, cRaw, cOut,
    \* the component: the user's tier, the equipment's stack count, the notes
    userIsPlugPower, activeStackCount, notes,
    \* the running handler (handleAddNote, handleEditNote,
    \* handleRecategorizeNote): its step, the dialog it awaits, its category
    \* (category / newCategory), its note and the note_category of that note
    \* as the handler was given it
    flow, step, dialog, category, target, targetCategory,
    \* what the running handler did last: the form value submitted, the result
    \* of validate, the request made to notesService, the requests so far
    lastValue, lastError, lastCall, nCalls,
    \* a function applied on its own: its argument, its result, what was applied
    initialValue, xValue, xOut, xPhase

codecVars == <<cShape, cItems, cFmt, cPhase, cRaw, cOut>>

envVars == <<userIsPlugPower, activeStackCount>>

flowVars == <<notes, flow, step, dialog, category, target, targetCategory,
              lastValue, lastError, lastCall, nCalls, initialValue>>

applyVars == <<xValue, xOut, xPhase>>

vars == <<cShape, cItems, cFmt, cPhase, cRaw, cOut,
          userIsPlugPower, activeStackCount, notes,
          flow, step, dialog, category, target, targetCategory,
          lastValue, lastError, lastCall, nCalls, initialValue,
          xValue, xOut, xPhase>>

----------------------------------------------------------------------------
(* Bounds *)

\* longest list of sub-records handed to the codec
MaxItems == 2
\* total number of characters typed into the text fields of one list
MaxChars == 1
\* most notes in the store
MaxNotes == 1
\* most identifier groups in a raw form value handed to an extractor
MaxGroups == 2
\* most notes in a history handed to the latest-serial lookup
MaxHistory == 2

----------------------------------------------------------------------------
(* JavaScript values *)

JNull == <<"null">>
JUndef == <<"undefined">>
JNaN == <<"NaN">>
JStr(s) == <<"str", s>>
JBool(b) == <<"bool", b>>
JNum(n) == <<"num", n>>
JList(l) == <<"list", l>>

\* JavaScript truthiness of a value
Truthy(v) ==
    CASE v[1] = "null" -> FALSE
      [] v[1] = "undefined" -> FALSE
      [] v[1] = "NaN" -> FALSE
      [] v[1] = "str" -> v[2] # <<>>
      [] v[1] = "bool" -> v[2]
      [] v[1] = "num" -> v[2] # 0
      [] OTHER -> TRUE

Min(S) == CHOOSE x \in S : \A y \in S : x <= y

RECURSIVE ConcatUntilEmpty(_)
\* a concatenation that stops at the first empty element
ConcatUntilEmpty(ss) ==
    IF ss = <<>> \/ Head(ss) = <<>> THEN <<>> ELSE Head(ss) \o ConcatUntilEmpty(Tail(ss))

RECURSIVE Concat(_)
\* the concatenation of a sequence of strings
Concat(ss) == IF ss = <<>> THEN <<>> ELSE Head(ss) \o Concat(Tail(ss))

RECURSIVE Join(_, _)
\* Array.prototype.join
Join(ss, sep) ==
    IF ss = <<>> THEN <<>>
    ELSE IF Len(ss) = 1 THEN ss[1]
    ELSE ss[1] \o sep \o Join(Tail(ss), sep)

RECURSIVE Split(_, _)
\* String.prototype.split on a one-character separator: a string without the
\* separator is one segment, and the empty string is one empty segment
Split(s, sep) ==
    LET hits == {i \in 1..Len(s) : s[i] = sep}
    IN  IF hits = {} THEN <<s>>
        ELSE LET i == Min(hits)
             IN  <<SubSeq(s, 1, i - 1)>> \o Split(SubSeq(s, i + 1, Len(s)), sep)

\* String.prototype.trim over the whitespace of the model's alphabet
Trim(s) ==
    LET solid == {i \in 1..Len(s) : s[i] # " "}
    IN  IF solid = {} THEN <<>>
        ELSE SubSeq(s, Min(solid), CHOOSE j \in solid : \A k \in solid : k <= j)

RECURSIVE SelectNonBlank(_)
\* .filter((r) => r.trim())
SelectNonBlank(segs) ==
    IF segs = <<>> THEN <<>>
    ELSE IF Trim(Head(segs)) # <<>> THEN <<Head(segs)>> \o SelectNonBlank(Tail(segs))
    ELSE SelectNonBlank(Tail(segs))

----------------------------------------------------------------------------
\* The tuple patterns of the parsers: an opening parenthesis and quote, n groups
\* of non-quote characters separated by quote-comma-quote, a closing quote and
\* parenthesis.  The first group is non-empty, the middle groups may be empty,
\* the last group is non-empty when lastPlus.  A group cannot hold a quote, so
\* from a start position each group runs to the next quote and the match, when
\* there is one, is unique.

NextQuote(s, i) ==
    LET qs == {q \in i..Len(s) : s[q] = "'"}
    IN  IF qs = {} THEN 0 ELSE Min(qs)

RECURSIVE GroupsFrom(_, _, _, _, _)
\* groups k..n read from index i; <<>> when the pattern does not fit
GroupsFrom(s, i, k, n, lastPlus) ==
    LET q == NextQuote(s, i)
    IN  IF q = 0 THEN <<>>
        ELSE LET g == SubSeq(s, i, q - 1)
                 least == IF k = 1 \/ (k = n /\ lastPlus) THEN 1 ELSE 0
             IN  IF Len(g) < least THEN <<>>
                 ELSE IF k = n
                 THEN IF q + 1 <= Len(s) /\ s[q + 1] = ")" THEN <<g>> ELSE <<>>
                 ELSE IF q + 2 <= Len(s) /\ s[q + 1] = "," /\ s[q + 2] = "'"
                 THEN LET rest == GroupsFrom(s, q + 3, k + 1, n, lastPlus)
                      IN  IF rest = <<>> THEN <<>> ELSE <<g>> \o rest
                 ELSE <<>>

MatchAt(s, p, n, lastPlus) ==
    IF p + 1 <= Len(s) /\ s[p] = "(" /\ s[p + 1] = "'"
    THEN GroupsFrom(s, p + 2, 1, n, lastPlus)
    ELSE <<>>

\* String.prototype.match with an unanchored pattern: the leftmost match's
\* groups, <<>> for no match
RegexMatch(s, n, lastPlus) ==
    LET ps == {p \in 1..Len(s) : MatchAt(s, p, n, lastPlus) # <<>>}
    IN  IF ps = {} THEN <<>> ELSE MatchAt(s, Min(ps), n, lastPlus)

TrueText == <<"t", "r", "u", "e">>
FalseText == <<"f", "a", "l", "s", "e">>
BoolText(b) == IF b THEN TrueText ELSE FalseText

\* the segments a parser maps over: raw.split(";").filter((r) => r.trim());
\* each is mapped to <<>> (null, filtered out) or to <<record>>
Segments(raw) == SelectNonBlank(Split(raw[2], ";"))

----------------------------------------------------------------------------
(* Parsing (string -> typed objects) *)

ReplacementOfSegment(r) ==
    LET match == RegexMatch(r, 5, TRUE)
    IN  IF match # <<>>
        THEN <<[identifier |-> match[1],
                removed_serial_number |-> match[2],
                added_serial_number |-> match[3],
                stack_symptom |-> match[4],
                stack_symptom_confirmed |-> (match[5] = TrueText)]>>
        ELSE <<>>

parseStackReplacements(raw) ==
    IF ~Truthy(raw) THEN <<>>
    ELSE LET segs == Segments(raw)
         IN  Concat([k \in 1..Len(segs) |-> ReplacementOfSegment(segs[k])])

\* a reading of one segment that knows the four-field notation only
InspectionOfSegmentNoLegacy(r) ==
    LET matchNew == RegexMatch(r, 4, TRUE)
    IN  IF matchNew # <<>>
        THEN <<[identifier |-> matchNew[1],
                serial_number |-> matchNew[2],
                insight |-> matchNew[3],
                completed |-> (matchNew[4] = TrueText)]>>
        ELSE <<>>

InspectionOfSegment(r) ==
    LET matchNew == RegexMatch(r, 4, TRUE)
        matchOld == RegexMatch(r, 3, FALSE)
    IN  IF matchNew # <<>>
        THEN <<[identifier |-> matchNew[1],
                serial_number |-> matchNew[2],
                insight |-> matchNew[3],
                completed |-> (matchNew[4] = TrueText)]>>
        ELSE IF matchOld # <<>>
        THEN <<[identifier |-> matchOld[1],
                serial_number |-> matchOld[2],
                insight |-> matchOld[3],
                completed |-> FALSE]>>
        ELSE <<>>

parseStackInspections(raw) ==
    IF ~Truthy(raw) THEN <<>>
    ELSE LET segs == Segments(raw)
         IN  Concat([k \in 1..Len(segs) |-> InspectionOfSegment(segs[k])])

TensioningOfSegment(r) ==
    LET match == RegexMatch(r, 4, TRUE)
    IN  IF match # <<>>
        THEN <<[identifier |-> match[1],
                serial_number |-> match[2],
                insight |-> match[3],
                completed |-> (match[4] = TrueText)]>>
        ELSE <<>>

parseStackTensioning(raw) ==
    IF ~Truthy(raw) THEN <<>>
    ELSE LET segs == Segments(raw)
         IN  Concat([k \in 1..Len(segs) |-> TensioningOfSegment(segs[k])])

InstallOfSegment(r) ==
    LET match == RegexMatch(r, 2, FALSE)
    IN  IF match # <<>>
        THEN <<[identifier |-> match[1], serial_number |-> match[2]]>>
        ELSE <<>>

parseStackInstalls(raw) ==
    IF ~Truthy(raw) THEN <<>>
    ELSE LET segs == Segments(raw)
         IN  Concat([k \in 1..Len(segs) |-> InstallOfSegment(segs[k])])

----------------------------------------------------------------------------
(* Serialization (typed objects -> string) *)

\* `('${f1}','${f2}',...)`
TupleText(fields) == <<"(", "'">> \o Join(fields, <<"'", ",", "'">>) \o <<"'", ")">>

ReplacementText(i) ==
    TupleText(<<i.identifier, i.removed_serial_number, i.added_serial_number,
                i.stack_symptom, BoolText(i.stack_symptom_confirmed)>>)

InspectionText(i) ==
    TupleText(<<i.identifier, i.serial_number, i.insight, BoolText(i.completed)>>)

InstallText(i) == TupleText(<<i.identifier, i.serial_number>>)

serializeStackReplacements(items) ==
    Join([k \in 1..Len(items) |-> ReplacementText(items[k])], <<";">>) \o <<";">>

serializeStackInspections(items) ==
    Join([k \in 1..Len(items) |-> InspectionText(items[k])], <<";">>) \o <<";">>

serializeStackTensioning(items) ==
    Join([k \in 1..Len(items) |-> InspectionText(items[k])], <<";">>) \o <<";">>

serializeStackInstalls(items) ==
    Join([k \in 1..Len(items) |-> InstallText(items[k])], <<";">>) \o <<";">>

----------------------------------------------------------------------------
(* Helpers *)

ALL_STACK_IDENTIFIERS == <<"a", "b", "c", "d", "e">>

\* the identifiers every stack count gets
AllIdentifiers(stackCount) == ALL_STACK_IDENTIFIERS

getStackIdentifiers(stackCount) ==
    SubSeq(ALL_STACK_IDENTIFIERS, 1, IF stackCount < 5 THEN stackCount ELSE 5)

----------------------------------------------------------------------------
(* Objects: a form value, a patch and a note are functions from keys to    *)
(* values.  A key is a tuple: <<"text">> for a plain key, and              *)
(* <<"stack_group_", id>> for the template key `stack_group_${id}`.        *)

JSym(s) == <<"sym", s>>
JGroup(g) == <<"group", g>>
JObj(o) == <<"obj", o>>

\* JavaScript truthiness, with the symbolic strings (category keys, option
\* values, messages, date texts), groups and objects
IsTruthy(v) ==
    CASE v[1] = "sym" -> v[2] # ""
      [] v[1] \in {"group", "obj", "list"} -> TRUE
      [] OTHER -> Truthy(v)

EmptyObject == <<>>

\* obj[k], undefined for a missing key
Get(obj, k) == IF k \in DOMAIN obj THEN obj[k] ELSE JUndef

\* Object.assign(a, b) and the spread { ...a, ...b }
Assign(a, b) ==
    [k \in DOMAIN a \cup DOMAIN b |-> IF k \in DOMAIN b THEN b[k] ELSE a[k]]

\* the object without one key: delete obj[k], and const { k, ...rest } = obj
Without(obj, k) == [j \in DOMAIN obj \ {k} |-> obj[j]]

\* a || b
OrElse(a, b) == IF IsTruthy(a) THEN a ELSE b

\* a ?? b
Coalesce(a, b) == IF a \in {JNull, JUndef} THEN b ELSE a

\* the text of a string value (the extractors hand strings to the serializers)
TextOf(v) == IF v[1] = "str" THEN v[2] ELSE <<>>

----------------------------------------------------------------------------
(* Form-value extraction *)

RECURSIVE ExtractBackwards(_, _, _)
\* the loop pushing each found item in front of the earlier ones
ExtractBackwards(ids, k, found) ==
    IF k > Len(ids) THEN <<>> ELSE ExtractBackwards(ids, k + 1, found) \o found[ids[k]]

RECURSIVE ExtractLoop(_, _, _)
\* for (const id of ids) { ... if (present) items.push(item) }, one(id) being
\* <<>> or <<item>>
ExtractLoop(ids, k, found) ==
    IF k > Len(ids) THEN <<>> ELSE found[ids[k]] \o ExtractLoop(ids, k + 1, found)

ReplacementOfGroup(value, id) ==
    LET group == OrElse(Get(value, <<"stack_group_", id>>), JGroup(EmptyObject))[2]
        removed == OrElse(Get(group, <<"removed_serial_number_", id>>), JStr(<<>>))
        added == OrElse(Get(group, <<"added_serial_number_", id>>), JStr(<<>>))
        symptom == OrElse(Get(group, <<"stack_symptom_", id>>), JStr(<<>>))
        confirmed == IsTruthy(Get(group, <<"stack_symptom_confirmed_", id>>))
    IN  IF IsTruthy(removed) \/ IsTruthy(added)
        THEN <<[identifier |-> <<id>>,
                removed_serial_number |-> TextOf(removed),
                added_serial_number |-> TextOf(added),
                stack_symptom |-> TextOf(symptom),
                stack_symptom_confirmed |-> confirmed]>>
        ELSE <<>>

extractStackReplacementsFromForm(value, stackCount) ==
    LET ids == getStackIdentifiers(stackCount)
    IN  ExtractLoop(ids, 1, [id \in {ids[k] : k \in 1..Len(ids)} |->
                                ReplacementOfGroup(value, id)])

InspectionOfGroup(value, id, prefix) ==
    LET group == OrElse(Get(value, <<prefix, id>>), JGroup(EmptyObject))[2]
        serial == OrElse(Get(group, <<"stack_serial_number_", id>>), JStr(<<>>))
        insight == OrElse(Get(group, <<"insight_", id>>), JStr(<<>>))
        completed == IsTruthy(Get(group, <<"stack_completed_", id>>))
    IN  IF IsTruthy(serial) \/ IsTruthy(insight)
        THEN <<[identifier |-> <<id>>, serial_number |-> TextOf(serial),
                insight |-> TextOf(insight), completed |-> completed]>>
        ELSE <<>>

extractStackInspectionsFromForm(value, stackCount) ==
    LET ids == getStackIdentifiers(stackCount)
    IN  ExtractLoop(ids, 1, [id \in {ids[k] : k \in 1..Len(ids)} |->
                                InspectionOfGroup(value, id, "stack_group_inspection_")])

extractStackTensioningFromForm(value, stackCount) ==
    LET ids == getStackIdentifiers(stackCount)
    IN  ExtractLoop(ids, 1, [id \in {ids[k] : k \in 1..Len(ids)} |->
                                InspectionOfGroup(value, id, "stack_group_tensioning_")])

InstallOfGroup(value, id) ==
    LET group == OrElse(Get(value, <<"stack_group_installs_", id>>), JGroup(EmptyObject))[2]
        serial == OrElse(Get(group, <<"stack_serial_number_", id>>), JStr(<<>>))
    IN  IF IsTruthy(serial)
        THEN <<[identifier |-> <<id>>, serial_number |-> TextOf(serial)]>>
        ELSE <<>>

extractStackInstallsFromForm(value, stackCount) ==
    LET ids == getStackIdentifiers(stackCount)
    IN  ExtractLoop(ids, 1, [id \in {ids[k] : k \in 1..Len(ids)} |->
                                InstallOfGroup(value, id)])

----------------------------------------------------------------------------
(* Category registry *)

\* All category configurations, in display order
CATEGORY_CONFIGS ==
    <<[value |-> "Calibration", label |-> "Calibration", internalOnly |-> FALSE],
      [value |-> "Software update", label |-> "Software update", internalOnly |-> FALSE],
      [value |-> "Settings change", label |-> "Settings change", internalOnly |-> FALSE],
      [value |-> "Stack replacements", label |-> "Stack replacements", internalOnly |-> TRUE],
      [value |-> "Stack inspection", label |-> "Stack visual inspection", internalOnly |-> TRUE],
      [value |-> "Stack tensioning", label |-> "Stack tensioning", internalOnly |-> TRUE],
      [value |-> "Stack installs", label |-> "Stack installs", internalOnly |-> TRUE],
      [value |-> "Other", label |-> "Other", internalOnly |-> FALSE]>>

CategoryKeys == {CATEGORY_CONFIGS[k].value : k \in 1..Len(CATEGORY_CONFIGS)}

\* whether getCategoryConfig finds a config: a truthy key of the registry
HasConfig(noteCategory) ==
    IsTruthy(noteCategory) /\ noteCategory[2] \in CategoryKeys

\* the config getCategoryConfig finds, for a key that has one
getCategoryConfig(noteCategory) ==
    CATEGORY_CONFIGS[CHOOSE k \in 1..Len(CATEGORY_CONFIGS) :
                        CATEGORY_CONFIGS[k].value = noteCategory[2]]

\* the raw key as the label, registered or not
RawKeyLabel(noteCategory) ==
    IF IsTruthy(noteCategory) THEN noteCategory[2] ELSE "Uncategorized"

getCategoryDisplayLabel(noteCategory) ==
    IF HasConfig(noteCategory) /\ getCategoryConfig(noteCategory).label # ""
    THEN getCategoryConfig(noteCategory).label
    ELSE IF IsTruthy(noteCategory) THEN noteCategory[2]
    ELSE "Uncategorized"

\* every config as an option, whoever asks
AllOptions(configs, isPlugPowerUser) ==
    [k \in 1..Len(configs) |->
        [value |-> configs[k].value, label |-> configs[k].label]]

RECURSIVE SelectOptions(_, _)
SelectOptions(configs, isPlugPowerUser) ==
    IF configs = <<>> THEN <<>>
    ELSE (IF isPlugPowerUser \/ ~Head(configs).internalOnly
          THEN <<[value |-> Head(configs).value, label |-> Head(configs).label]>>
          ELSE <<>>) \o SelectOptions(Tail(configs), isPlugPowerUser)

\* the options of a user with elevated access, offered to every user
EveryCategoryOption(isPlugPowerUser) == SelectOptions(CATEGORY_CONFIGS, TRUE)

getCategoryOptions(isPlugPowerUser) == SelectOptions(CATEGORY_CONFIGS, isPlugPowerUser)

\* tagNumbers.map((item) => typeof item === "string" ? item : item.tag_number)
TagStrings(tagNumbers) ==
    JList([k \in 1..Len(tagNumbers[2]) |->
             IF tagNumbers[2][k][1] = "str" THEN tagNumbers[2][k]
             ELSE Get(tagNumbers[2][k][2], <<"tag_number">>)])

calibrationSerializeFormValue(value) ==
    LET tagNumbers == Get(value, <<"tag_numbers">>)
    IN  [k \in {<<"tag_numbers">>} |->
            IF tagNumbers[1] = "list" THEN TagStrings(tagNumbers) ELSE JNull]

softwareUpdateSerializeFormValue(value) ==
    (<<"software_type">> :> OrElse(Get(value, <<"software_type">>), JNull))
    @@ (<<"version">> :> OrElse(Get(value, <<"version">>), JNull))

\* a serializeFormValue that encodes the list whatever its length
ReplacementsAlwaysEncoded(value, stackCount) ==
    (<<"workorder_id">> :> OrElse(Get(value, <<"workorder_id">>), JNull))
    @@ (<<"stack_replacements">> :>
          JStr(serializeStackReplacements(
                   extractStackReplacementsFromForm(value, stackCount))))

stackReplacementsSerializeFormValue(value, stackCount) ==
    LET items == extractStackReplacementsFromForm(value, stackCount)
    IN  (<<"workorder_id">> :> OrElse(Get(value, <<"workorder_id">>), JNull))
        @@ (<<"stack_replacements">> :>
                IF Len(items) > 0 THEN JStr(serializeStackReplacements(items)) ELSE JNull)

stackInspectionSerializeFormValue(value, stackCount) ==
    LET items == extractStackInspectionsFromForm(value, stackCount)
    IN  [k \in {<<"stack_inspections">>} |->
            IF Len(items) > 0 THEN JStr(serializeStackInspections(items)) ELSE JNull]

stackTensioningSerializeFormValue(value, stackCount) ==
    LET items == extractStackTensioningFromForm(value, stackCount)
    IN  [k \in {<<"stack_tensioning">>} |->
            IF Len(items) > 0 THEN JStr(serializeStackTensioning(items)) ELSE JNull]

stackInstallsSerializeFormValue(value, stackCount) ==
    LET items == extractStackInstallsFromForm(value, stackCount)
    IN  [k \in {<<"stack_installs">>} |->
            IF Len(items) > 0 THEN JStr(serializeStackInstalls(items)) ELSE JNull]

\* config.serializeFormValue(value, helpers) of the config with this key
serializeFormValue(key, value, stackCount) ==
    CASE key \in {"Calibration", "Settings change"} -> calibrationSerializeFormValue(value)
      [] key = "Software update" -> softwareUpdateSerializeFormValue(value)
      [] key = "Stack replacements" -> stackReplacementsSerializeFormValue(value, stackCount)
      [] key = "Stack inspection" -> stackInspectionSerializeFormValue(value, stackCount)
      [] key = "Stack tensioning" -> stackTensioningSerializeFormValue(value, stackCount)
      [] key = "Stack installs" -> stackInstallsSerializeFormValue(value, stackCount)
      [] OTHER -> EmptyObject

\* the configs that define validate
HasValidate(key) ==
    key \in {"Stack replacements", "Stack inspection", "Stack tensioning", "Stack installs"}

\* config.validate(value, helpers): an error message or null
validate(key, value, stackCount) ==
    CASE key = "Stack replacements" ->
             IF Len(extractStackReplacementsFromForm(value, stackCount)) = 0
             THEN JSym("At least one stack replacement must be filled in.") ELSE JNull
      [] key = "Stack inspection" ->
             IF Len(extractStackInspectionsFromForm(value, stackCount)) = 0
             THEN JSym("At least one stack inspection must be filled in.") ELSE JNull
      [] key = "Stack tensioning" ->
             IF Len(extractStackTensioningFromForm(value, stackCount)) = 0
             THEN JSym("At least one stack tensioning must be filled in.") ELSE JNull
      [] key = "Stack installs" ->
             IF Len(extractStackInstallsFromForm(value, stackCount)) = 0
             THEN JSym("At least one stack install must be filled in.") ELSE JNull
      [] OTHER -> JNull

----------------------------------------------------------------------------
(* Dates: DateTime.fromISO on the texts a date field can hold *)

IsoInstant1 == "1970-01-01T00:00:00.001Z"
IsoInstant2 == "1970-01-01T00:00:00.002Z"

\* DateTime.fromISO(text): invalid for a text that is no ISO instant
fromISO(text) ==
    CASE text = IsoInstant1 -> [isValid |-> TRUE, ms |-> 1]
      [] text = IsoInstant2 -> [isValid |-> TRUE, ms |-> 2]
      [] OTHER -> [isValid |-> FALSE, ms |-> 0]

\* date.toMillis(): NaN for an invalid DateTime
toMillis(date) == IF date.isValid THEN JNum(date.ms) ELSE JNaN

----------------------------------------------------------------------------
(* The notes kept by notesService.  A note is held on its category and on  *)
(* the category-owned fields.                                              *)

StackFields ==
    {<<"stack_replacements">>, <<"stack_inspections">>,
     <<"stack_tensioning">>, <<"stack_installs">>}

\* the category-specific fields of a Note
OwnedFields ==
    {<<"tag_numbers">>, <<"software_type">>, <<"version">>, <<"workorder_id">>}
    \cup StackFields

StoredFields == {<<"note_category">>} \cup OwnedFields

\* the fields of the flat Note record
NoteFields ==
    {<<"_id">>, <<"user">>, <<"subject">>, <<"text">>, <<"created_on">>, <<"category">>,
     <<"note_category">>, <<"author_id">>, <<"author_name">>, <<"editor_id">>,
     <<"editor_name">>, <<"updated_on">>, <<"performed_on">>, <<"external_note">>}
    \cup OwnedFields

\* a request's patch, field by field, on the stored fields
ApplyPatch(note, patch) ==
    [k \in StoredFields |-> IF k \in DOMAIN patch THEN patch[k] ELSE note[k]]

\* notesService.add(noteData): a new note, every field the patch leaves out null
notesServiceAdd(store, noteData) ==
    Append(store, ApplyPatch([k \in StoredFields |-> JNull], noteData))

\* notesService.edit(id, patch)
notesServiceEdit(store, id, patch) ==
    [store EXCEPT ![id] = ApplyPatch(@, patch)]

NoCall == [op |-> "none", id |-> 0, patch |-> EmptyObject]

----------------------------------------------------------------------------
(* What a dialog can return.  A form dialog returns values under the keys  *)
(* of its inputs; a field left alone may be missing.                       *)

OkText == JStr(<<"o", "k">>)
SerialText == JStr(<<"s">>)

TagObject(t) == JObj([k \in {<<"tag_number">>} |-> JStr(<<t>>)])

TagFieldValues ==
    {EmptyObject,
     [k \in {<<"tag_numbers">>} |-> JList(<<TagObject("t")>>)],
     [k \in {<<"tag_numbers">>} |-> JList(<<TagObject("t"), JStr(<<"u">>)>>)]}

SoftwareFieldValues ==
    {(<<"software_type">> :> JSym("PLC software")) @@ (<<"version">> :> JStr(<<"v", "2">>)),
     (<<"software_type">> :> JSym("Other")) @@ (<<"version">> :> JStr(<<>>)),
     [k \in {<<"version">>} |-> JStr(<<"v", "2">>)]}

\* what the group of one identifier can hold in a Stack replacements form
ReplacementGroups(id) ==
    {EmptyObject,
     (<<"removed_serial_number_", id>> :> JStr(<<>>))
        @@ (<<"added_serial_number_", id>> :> JStr(<<>>))
        @@ (<<"stack_symptom_", id>> :> JStr(<<>>))
        @@ (<<"stack_symptom_confirmed_", id>> :> JBool(FALSE)),
     (<<"stack_symptom_", id>> :> JStr(<<"x">>))
        @@ (<<"stack_symptom_confirmed_", id>> :> JBool(TRUE)),
     [k \in {<<"removed_serial_number_", id>>} |-> SerialText],
     (<<"added_serial_number_", id>> :> SerialText)
        @@ (<<"stack_symptom_", id>> :> JStr(<<"x">>))
        @@ (<<"stack_symptom_confirmed_", id>> :> JBool(TRUE))}

\* ... in a Stack inspection or a Stack tensioning form
InspectionGroups(id) ==
    {EmptyObject,
     (<<"stack_serial_number_", id>> :> JStr(<<>>)) @@ (<<"insight_", id>> :> JStr(<<>>))
        @@ (<<"stack_completed_", id>> :> JBool(TRUE)),
     [k \in {<<"stack_serial_number_", id>>} |-> SerialText],
     (<<"insight_", id>> :> JStr(<<"x">>)) @@ (<<"stack_completed_", id>> :> JBool(TRUE))}

\* ... in a Stack installs form
InstallGroups(id) ==
    {EmptyObject,
     [k \in {<<"stack_serial_number_", id>>} |-> JStr(<<>>)],
     [k \in {<<"stack_serial_number_", id>>} |-> SerialText]}

GroupPrefix(key) ==
    CASE key = "Stack replacements" -> "stack_group_"
      [] key = "Stack inspection" -> "stack_group_inspection_"
      [] key = "Stack tensioning" -> "stack_group_tensioning_"
      [] OTHER -> "stack_group_installs_"

GroupsOf(key, id) ==
    CASE key = "Stack replacements" -> ReplacementGroups(id)
      [] key = "Stack installs" -> InstallGroups(id)
      [] OTHER -> InspectionGroups(id)

\* a group with a serial number and nothing else
FilledGroup(key, id) ==
    IF key = "Stack replacements"
    THEN [k \in {<<"removed_serial_number_", id>>} |-> SerialText]
    ELSE [k \in {<<"stack_serial_number_", id>>} |-> SerialText]

\* the stack groups of a form: no group at all; any group for the first
\* identifier; a filled group for the last identifier, alone or with the first
StackFieldValues(key, count) ==
    LET ids == getStackIdentifiers(count)
        first == ids[1]
        last == ids[Len(ids)]
        one(id, g) == [k \in {<<GroupPrefix(key), id>>} |-> JGroup(g)]
    IN  {EmptyObject}
        \cup {one(first, g) : g \in GroupsOf(key, first)}
        \cup (IF last = first THEN {}
              ELSE {one(last, FilledGroup(key, last)),
                    one(first, FilledGroup(key, first)) @@ one(last, FilledGroup(key, last))})

WorkorderValues ==
    {[k \in {<<"workorder_id">>} |-> JStr(<<>>)],
     [k \in {<<"workorder_id">>} |-> JStr(<<"w">>)]}

\* a category-specific part that passes validate
DefaultFieldValue(key, count) ==
    CASE key \in {"Calibration", "Settings change"} ->
             [k \in {<<"tag_numbers">>} |-> JList(<<TagObject("t")>>)]
      [] key = "Software update" ->
             (<<"software_type">> :> JSym("PLC software"))
                @@ (<<"version">> :> JStr(<<"v", "2">>))
      [] key \in {"Stack replacements", "Stack inspection", "Stack tensioning",
                  "Stack installs"} ->
             [k \in {<<GroupPrefix(key), "a">>} |-> JGroup(FilledGroup(key, "a"))]
      [] OTHER -> EmptyObject

\* the category-specific part of a submitted form: config.getFormInputs
CategoryFieldValues(key, count) ==
    CASE key \in {"Calibration", "Settings change"} -> TagFieldValues
      [] key = "Software update" -> SoftwareFieldValues
      [] key = "Stack replacements" ->
             StackFieldValues(key, count)
             \cup {w @@ DefaultFieldValue(key, count) : w \in WorkorderValues}
      [] key \in {"Stack inspection", "Stack tensioning", "Stack installs"} ->
             StackFieldValues(key, count)
      [] OTHER -> {EmptyObject}

DefaultDate == [k \in {<<"performed_on">>} |-> JSym(IsoInstant1)]

\* the performed_on of a submitted form: missing, empty, no ISO instant, an
\* ISO instant
DateValues ==
    {EmptyObject,
     [k \in {<<"performed_on">>} |-> JSym("")],
     [k \in {<<"performed_on">>} |-> JSym("not-a-date")],
     DefaultDate,
     [k \in {<<"performed_on">>} |-> JSym(IsoInstant2)]}

DefaultCommon == [k \in {<<"text">>} |-> OkText]

\* the common inputs: text always, external_note for PlugPower users only; a
\* form of another user may still carry an external_note set to false
CommonValues(isPlug) ==
    {DefaultCommon}
    \cup (IF isPlug
          THEN {(<<"text">> :> OkText) @@ (<<"external_note">> :> JBool(b)) : b \in BOOLEAN}
          ELSE {(<<"text">> :> OkText) @@ (<<"external_note">> :> JBool(FALSE))})

\* the values the form dialog built by buildFullInputs returns: every
\* category-specific part, every date and every common part, each of the three
\* varied with the other two held at a value that passes
FormValues(key, count, isPlug) ==
    {DefaultDate @@ c @@ DefaultCommon : c \in CategoryFieldValues(key, count)}
    \cup {d @@ DefaultFieldValue(key, count) @@ DefaultCommon : d \in DateValues}
    \cup {DefaultDate @@ DefaultFieldValue(key, count) @@ t : t \in CommonValues(isPlug)}

----------------------------------------------------------------------------
(* The handlers' computations *)

\* a handler that refuses a category the registry does not know
RejectUnknown(noteCategory, value, count) ==
    IF HasConfig(noteCategory) THEN JNull ELSE JSym("Unknown category.")

\* a handler that never consults validate
NoValidationError(noteCategory, value, count) == JNull

\* if (config?.validate) { const error = config.validate(value, helpers) ... }:
\* the message that blocks the submission, null when nothing does
ValidationError(noteCategory, value, count) ==
    IF HasConfig(noteCategory) /\ HasValidate(noteCategory[2])
    THEN validate(noteCategory[2], value, count)
    ELSE JNull

\* a handler that leaves serializeFormValue out
SkipSerialized(obj, noteCategory, value, count) == obj

\* if (config) Object.assign(target, config.serializeFormValue(value, helpers))
AssignSerialized(obj, noteCategory, value, count) ==
    IF HasConfig(noteCategory)
    THEN Assign(obj, serializeFormValue(noteCategory[2], value, count))
    ELSE obj

\* handleAddNote, "Handle performed_on": set only for a valid date
AddPerformedOn(value) ==
    LET text == Get(value, <<"performed_on">>)
    IN  IF IsTruthy(text) /\ fromISO(text[2]).isValid
        THEN [k \in {<<"performed_on">>} |-> toMillis(fromISO(text[2]))]
        ELSE EmptyObject

\* the remaining form values with external_note left in
RestWithExternalNote(value) == Without(value, <<"performed_on">>)

\* handleAddNote, "Merge remaining standard form values": the form value
\* without performed_on and external_note
AddRestOfValue(value) == Without(Without(value, <<"performed_on">>), <<"external_note">>)

\* handleAddNote, "Build note data": the object passed to notesService.add
AddNoteData(cat, value, isPlug, count) ==
    LET base == (<<"note_category">> :> cat)
                @@ (<<"external_note">> :>
                      IF isPlug THEN Coalesce(Get(value, <<"external_note">>), JBool(FALSE))
                      ELSE JBool(TRUE))
        serialized == AssignSerialized(base, cat, value, count)
        dated == Assign(serialized, AddPerformedOn(value))
    IN  Assign(dated, AddRestOfValue(value))

\* handleEditNote, "Handle performed_on"
EditPerformedOn(value) ==
    LET text == Get(value, <<"performed_on">>)
    IN  IF IsTruthy(text)
        THEN [k \in {<<"performed_on">>} |-> toMillis(fromISO(text[2]))]
        ELSE EmptyObject

\* "Transform tag_numbers from array of objects to array of strings"
TransformTagNumbers(obj, from) ==
    IF IsTruthy(Get(from, <<"tag_numbers">>)) /\ Get(from, <<"tag_numbers">>)[1] = "list"
    THEN Assign(obj, [k \in {<<"tag_numbers">>} |-> TagStrings(Get(from, <<"tag_numbers">>))])
    ELSE obj

\* handleEditNote: the patch passed to notesService.edit
EditUpdatedNote(noteCategory, value, count) ==
    LET rest == Without(value, <<"performed_on">>)
        dated == Assign(rest, EditPerformedOn(value))
        tagged == TransformTagNumbers(dated, dated)
    IN  AssignSerialized(tagged, noteCategory, value, count)

\* handleEditNote: the category whose inputs the dialog shows
EditFormCategory(noteCategory) == IF IsTruthy(noteCategory) THEN noteCategory[2] ELSE "Other"

\* a performed_on written whatever DateTime.fromISO makes of the text
PerformedOnUnchecked(value) ==
    LET text == Get(value, <<"performed_on">>)
    IN  IF IsTruthy(text)
        THEN [k \in {<<"performed_on">>} |-> toMillis(fromISO(text[2]))]
        ELSE EmptyObject

\* handleRecategorizeNote, "Handle performed_on"
RecategorizePerformedOn(value) ==
    LET text == Get(value, <<"performed_on">>)
    IN  IF IsTruthy(text) /\ fromISO(text[2]).isValid
        THEN [k \in {<<"performed_on">>} |-> toMillis(fromISO(text[2]))]
        ELSE EmptyObject

\* handleRecategorizeNote, "Include text"
RecategorizeText(value) ==
    IF Get(value, <<"text">>) # JUndef
    THEN [k \in {<<"text">>} |-> value[<<"text">>]]
    ELSE EmptyObject

\* an updated note sent without the clearing of the old fields
KeepOldCategoryFields(updatedNote) == updatedNote

\* handleRecategorizeNote, "Clear old category-specific fields"
ClearOldCategoryFields(updatedNote) ==
    Assign(updatedNote, [k \in OwnedFields |-> Coalesce(Get(updatedNote, k), JNull)])

\* an updated note made of the new category and the raw form value
RecategorizeRawValue(newCategory, value, isPlug, count) ==
    Assign([k \in {<<"note_category">>} |-> newCategory], value)

\* handleRecategorizeNote, "Build updated note": the patch passed to
\* notesService.edit
RecategorizeUpdatedNote(newCategory, value, isPlug, count) ==
    LET base == (<<"note_category">> :> newCategory)
                @@ (<<"external_note">> :>
                      IF isPlug THEN Coalesce(Get(value, <<"external_note">>), JBool(FALSE))
                      ELSE JBool(TRUE))
        dated == Assign(base, RecategorizePerformedOn(value))
        tagged == TransformTagNumbers(dated, value)
        serialized == AssignSerialized(tagged, newCategory, value, count)
        texted == Assign(serialized, RecategorizeText(value))
    IN  ClearOldCategoryFields(texted)

\* flows in which leaving the second dialog ends the handler
CancelEndsAdd == "exit"
BackEndsRecategorize == "exit"

\* a flow whose loop goes on after notesService.add
AddGoesOnAfterAdd == "note"

\* the step after the category dialog of handleAddNote returns
AddStepAfterCategory(chosen) == IF chosen THEN "note" ELSE "exit"
\* the step after the note dialog of handleAddNote is cancelled
AddStepAfterNoteCancel == "category"
\* the step after notesService.add
AddStepAfterAdd == "exit"

\* a flow whose loop goes on after notesService.edit
RecategorizeGoesOnAfterEdit == "fill_new_fields"

\* the same for handleRecategorizeNote
RecategorizeStepAfterSelect(chosen) == IF chosen THEN "fill_new_fields" ELSE "exit"
RecategorizeStepAfterBack == "select_category"
RecategorizeStepAfterEdit == "exit"

----------------------------------------------------------------------------
(* The flows.  A handler runs from one await to the next in one action.    *)

\* config.getFormInputs(helpers): the keys of the inputs, in order
getFormInputs(key, count) ==
    LET ids == getStackIdentifiers(count)
        groups == [k \in 1..Len(ids) |-> <<GroupPrefix(key), ids[k]>>]
    IN  CASE key \in {"Calibration", "Settings change"} -> <<<<"tag_numbers">>>>
          [] key = "Software update" -> <<<<"software_type">>, <<"version">>>>
          [] key = "Stack replacements" -> <<<<"workorder_id">>>> \o groups
          [] key \in {"Stack inspection", "Stack tensioning", "Stack installs"} -> groups
          [] OTHER -> <<>>

\* buildCommonInputs: text always, external_note for PlugPower users only
buildCommonInputs(isPlugPowerUser) ==
    <<<<"text">>>> \o (IF isPlugPowerUser THEN <<<<"external_note">>>> ELSE <<>>)

\* buildFullInputs(category, helpers, isPlugPowerUser): the keys of the inputs
\* of the form dialog, in order
buildFullInputs(noteCategory, count, isPlugPowerUser) ==
    <<<<"performed_on">>>>
    \o (IF HasConfig(noteCategory) THEN getFormInputs(noteCategory[2], count) ELSE <<>>)
    \o buildCommonInputs(isPlugPowerUser)

\* the `${identifier}` of a key built from a parsed sub-record
IdKey(identifier) == IF Len(identifier) = 1 THEN identifier[1] ELSE identifier

\* the group getEditInitialValue builds from one parsed sub-record
EditGroup(key, item, id) ==
    CASE key = "Stack replacements" ->
             (<<"removed_serial_number_", id>> :> JStr(item.removed_serial_number))
             @@ (<<"added_serial_number_", id>> :> JStr(item.added_serial_number))
             @@ (<<"stack_symptom_", id>> :> JStr(item.stack_symptom))
             @@ (<<"stack_symptom_confirmed_", id>> :> JBool(item.stack_symptom_confirmed))
      [] key = "Stack installs" ->
             [k \in {<<"stack_serial_number_", id>>} |-> JStr(item.serial_number)]
      [] OTHER ->
             (<<"stack_serial_number_", id>> :> JStr(item.serial_number))
             @@ (<<"insight_", id>> :> JStr(item.insight))
             @@ (<<"stack_completed_", id>> :> JBool(item.completed))

RECURSIVE EditGroups(_, _)
\* for (const r of items) initial[`stack_group_*${r.identifier}`] = { ... }
EditGroups(key, items) ==
    IF items = <<>> THEN EmptyObject
    ELSE LET item == items[Len(items)]
             id == IdKey(item.identifier)
         IN  Assign(EditGroups(key, SubSeq(items, 1, Len(items) - 1)),
                    [k \in {<<GroupPrefix(key), id>>} |-> JGroup(EditGroup(key, item, id))])

\* config?.getEditInitialValue?.(note, editHelpers) ?? {}
getEditInitialValue(note) ==
    LET noteCategory == note[<<"note_category">>]
        key == IF HasConfig(noteCategory) THEN noteCategory[2] ELSE ""
        or(field, default) == [k \in {<<field>>} |-> OrElse(note[<<field>>], default)]
    IN  CASE key \in {"Calibration", "Settings change"} -> or("tag_numbers", JList(<<>>))
          [] key = "Software update" ->
                 or("software_type", JStr(<<>>)) @@ or("version", JStr(<<>>))
          [] key = "Stack replacements" ->
                 Assign(or("workorder_id", JStr(<<>>)),
                        EditGroups(key, parseStackReplacements(note[<<"stack_replacements">>])))
          [] key = "Stack inspection" ->
                 EditGroups(key, parseStackInspections(note[<<"stack_inspections">>]))
          [] key = "Stack tensioning" ->
                 EditGroups(key, parseStackTensioning(note[<<"stack_tensioning">>]))
          [] key = "Stack installs" ->
                 EditGroups(key, parseStackInstalls(note[<<"stack_installs">>]))
          [] OTHER -> EmptyObject

\* handleEditNote, "Build initial values", on the stored fields of the note
EditInitialValue(note) == Assign(note, getEditInitialValue(note))

Idle == flow = "none" \/ step = "exit"

OptionKeys(isPlug) ==
    {getCategoryOptions(isPlug)[k].value : k \in 1..Len(getCategoryOptions(isPlug))}

Begin(f, s, n) ==
    /\ flow' = f
    /\ step' = s
    /\ dialog' = "form"
    /\ category' = JNull
    /\ target' = n
    /\ targetCategory' = IF n = 0 THEN JNull ELSE notes[n][<<"note_category">>]
    /\ lastValue' = EmptyObject
    /\ lastError' = JNull
    /\ lastCall' = NoCall
    /\ nCalls' = 0
    /\ initialValue' = IF f = "edit" THEN JObj(EditInitialValue(notes[n])) ELSE JUndef
    /\ UNCHANGED <<notes, envVars, codecVars, applyVars>>

\* ---- handleAddNote

StartAdd ==
    /\ Idle
    /\ Len(notes) < MaxNotes
    /\ Begin("add", "category", 0)

\* the category dialog returns a value: step = "note", and the note dialog
\* opens unless category is empty
AddCategoryChosen ==
    /\ flow = "add" /\ step = "category" /\ dialog = "form"
    /\ \E key \in OptionKeys(userIsPlugPower) :
        /\ category' = JSym(key)
        /\ step' = IF IsTruthy(JSym(key)) THEN AddStepAfterCategory(TRUE) ELSE "category"
        /\ UNCHANGED <<dialog, notes, target, targetCategory, lastValue, lastError, lastCall, nCalls,
                       flow, envVars, codecVars, initialValue, applyVars>>

AddCategoryCancelled ==
    /\ flow = "add" /\ step = "category" /\ dialog = "form"
    /\ step' = AddStepAfterCategory(FALSE)
    /\ dialog' = "none"
    /\ UNCHANGED <<category, notes, target, targetCategory, lastValue, lastError, lastCall, nCalls,
                   flow, envVars, codecVars, initialValue, applyVars>>

\* the note dialog returns a value that validate rejects: the alert opens
AddNoteRejected ==
    /\ flow = "add" /\ step = "note" /\ dialog = "form"
    /\ \E value \in FormValues(category[2], activeStackCount, userIsPlugPower) :
        /\ IsTruthy(ValidationError(category, value, activeStackCount))
        /\ lastValue' = value
        /\ lastError' = ValidationError(category, value, activeStackCount)
        /\ dialog' = "alert"
        /\ UNCHANGED <<step, category, notes, target, targetCategory, lastCall, nCalls, flow, envVars, codecVars, initialValue, applyVars>>

\* the alert is closed: continue ends the iteration, value and error go out of
\* scope, and the note dialog opens again, no initialValue handed to it
AddAlertClosed ==
    /\ flow = "add" /\ step = "note" /\ dialog = "alert"
    /\ dialog' = "form"
    /\ lastValue' = EmptyObject
    /\ lastError' = JNull
    /\ initialValue' = JUndef
    /\ UNCHANGED <<step, category, notes, target, targetCategory, lastCall, nCalls, flow, envVars, codecVars, applyVars>>

\* the note dialog returns a value that passes: notesService.add
AddNoteSubmitted ==
    /\ flow = "add" /\ step = "note" /\ dialog = "form"
    /\ \E value \in FormValues(category[2], activeStackCount, userIsPlugPower) :
        /\ ~IsTruthy(ValidationError(category, value, activeStackCount))
        /\ LET noteData == AddNoteData(category, value, userIsPlugPower, activeStackCount)
           IN  /\ notes' = notesServiceAdd(notes, noteData)
               /\ lastCall' = [op |-> "add", id |-> 0, patch |-> noteData]
        /\ nCalls' = nCalls + 1
        /\ lastValue' = value
        /\ lastError' = JNull
        /\ step' = AddStepAfterAdd
        /\ dialog' = "none"
        /\ UNCHANGED <<category, target, targetCategory, flow, envVars, codecVars, initialValue, applyVars>>

AddNoteCancelled ==
    /\ flow = "add" /\ step = "note" /\ dialog = "form"
    /\ step' = AddStepAfterNoteCancel
    /\ UNCHANGED <<dialog, category, notes, target, targetCategory, lastValue, lastError, lastCall, nCalls,
                   flow, envVars, codecVars, initialValue, applyVars>>

\* ---- handleEditNote

StartEdit ==
    /\ Idle
    /\ \E n \in 1..Len(notes) :
        /\ Begin("edit", "edit", n)

\* the dialog returns a value that validate rejects: the alert is opened, not
\* awaited, and the handler returns
EditRejected ==
    /\ flow = "edit" /\ step = "edit" /\ dialog = "form"
    /\ \E value \in FormValues(EditFormCategory(targetCategory),
                            activeStackCount, userIsPlugPower) :
        /\ IsTruthy(ValidationError(targetCategory, value, activeStackCount))
        /\ lastValue' = value
        /\ lastError' = ValidationError(targetCategory, value,
                                        activeStackCount)
        /\ dialog' = "alert"
        /\ step' = "exit"
        /\ UNCHANGED <<category, notes, target, targetCategory, lastCall, nCalls, flow, envVars, codecVars, initialValue, applyVars>>

EditSubmitted ==
    /\ flow = "edit" /\ step = "edit" /\ dialog = "form"
    /\ \E value \in FormValues(EditFormCategory(targetCategory),
                            activeStackCount, userIsPlugPower) :
        /\ ~IsTruthy(ValidationError(targetCategory, value,
                                     activeStackCount))
        /\ LET updatedNote == EditUpdatedNote(targetCategory, value,
                                              activeStackCount)
           IN  /\ notes' = notesServiceEdit(notes, target, updatedNote)
               /\ lastCall' = [op |-> "edit", id |-> target, patch |-> updatedNote]
        /\ nCalls' = nCalls + 1
        /\ lastValue' = value
        /\ lastError' = JNull
        /\ step' = "exit"
        /\ dialog' = "none"
        /\ UNCHANGED <<category, target, targetCategory, flow, envVars, codecVars, initialValue, applyVars>>

EditCancelled ==
    /\ flow = "edit" /\ step = "edit" /\ dialog = "form"
    /\ step' = "exit"
    /\ dialog' = "none"
    /\ UNCHANGED <<category, notes, target, targetCategory, lastValue, lastError, lastCall, nCalls,
                   flow, envVars, codecVars, initialValue, applyVars>>

\* ---- handleRecategorizeNote

StartRecategorize ==
    /\ Idle
    /\ \E n \in 1..Len(notes) :
        /\ Begin("recategorize", "select_category", n)

RecategorizeCategoryChosen ==
    /\ flow = "recategorize" /\ step = "select_category" /\ dialog = "form"
    /\ \E key \in OptionKeys(userIsPlugPower) :
        /\ category' = JSym(key)
        /\ step' = IF IsTruthy(JSym(key)) THEN RecategorizeStepAfterSelect(TRUE)
                   ELSE "select_category"
        /\ UNCHANGED <<dialog, notes, target, targetCategory, lastValue, lastError, lastCall, nCalls,
                       flow, envVars, codecVars, initialValue, applyVars>>

RecategorizeCategoryCancelled ==
    /\ flow = "recategorize" /\ step = "select_category" /\ dialog = "form"
    /\ step' = RecategorizeStepAfterSelect(FALSE)
    /\ dialog' = "none"
    /\ UNCHANGED <<category, notes, target, targetCategory, lastValue, lastError, lastCall, nCalls,
                   flow, envVars, codecVars, initialValue, applyVars>>

RecategorizeRejected ==
    /\ flow = "recategorize" /\ step = "fill_new_fields" /\ dialog = "form"
    /\ \E value \in FormValues(category[2], activeStackCount, userIsPlugPower) :
        /\ IsTruthy(ValidationError(category, value, activeStackCount))
        /\ lastValue' = value
        /\ lastError' = ValidationError(category, value, activeStackCount)
        /\ dialog' = "alert"
        /\ UNCHANGED <<step, category, notes, target, targetCategory, lastCall, nCalls, flow, envVars, codecVars, initialValue, applyVars>>

RecategorizeAlertClosed ==
    /\ flow = "recategorize" /\ step = "fill_new_fields" /\ dialog = "alert"
    /\ dialog' = "form"
    /\ lastValue' = EmptyObject
    /\ lastError' = JNull
    /\ initialValue' = JUndef
    /\ UNCHANGED <<step, category, notes, target, targetCategory, lastCall, nCalls, flow, envVars, codecVars, applyVars>>

RecategorizeSubmitted ==
    /\ flow = "recategorize" /\ step = "fill_new_fields" /\ dialog = "form"
    /\ \E value \in FormValues(category[2], activeStackCount, userIsPlugPower) :
        /\ ~IsTruthy(ValidationError(category, value, activeStackCount))
        /\ LET updatedNote == RecategorizeUpdatedNote(category, value, userIsPlugPower,
                                                      activeStackCount)
           IN  /\ notes' = notesServiceEdit(notes, target, updatedNote)
               /\ lastCall' = [op |-> "edit", id |-> target, patch |-> updatedNote]
        /\ nCalls' = nCalls + 1
        /\ lastValue' = value
        /\ lastError' = JNull
        /\ step' = RecategorizeStepAfterEdit
        /\ dialog' = "none"
        /\ UNCHANGED <<category, target, targetCategory, flow, envVars, codecVars, initialValue, applyVars>>

RecategorizeBack ==
    /\ flow = "recategorize" /\ step = "fill_new_fields" /\ dialog = "form"
    /\ step' = RecategorizeStepAfterBack
    /\ UNCHANGED <<dialog, category, notes, target, targetCategory, lastValue, lastError, lastCall, nCalls,
                   flow, envVars, codecVars, initialValue, applyVars>>

\* the codec harness at rest
CodecIdle ==
    /\ cShape = "Install"
    /\ cItems = <<>>
    /\ cFmt = <<>>
    /\ cPhase = "build"
    /\ cRaw = JNull
    /\ cOut = <<>>

\* no handler running, no note stored
FlowsIdle ==
    /\ notes = <<>>
    /\ flow = "none"
    /\ step = "exit"
    /\ dialog = "none"
    /\ category = JNull
    /\ target = 0
    /\ targetCategory = JNull
    /\ lastValue = EmptyObject
    /\ lastError = JNull
    /\ lastCall = NoCall
    /\ nCalls = 0
    /\ initialValue = JUndef

\* no function applied on its own
ApplyIdle ==
    /\ xValue = EmptyObject
    /\ xOut = <<>>
    /\ xPhase = "build"

\* getStackCount returns 1 for an EX425D and 5 otherwise
StackCounts == {1, 5}

Init ==
    /\ userIsPlugPower \in BOOLEAN
    /\ activeStackCount \in StackCounts
    /\ FlowsIdle
    /\ CodecIdle
    /\ ApplyIdle

Next ==
    \/ StartAdd
    \/ AddCategoryChosen
    \/ AddCategoryCancelled
    \/ AddNoteRejected
    \/ AddAlertClosed
    \/ AddNoteSubmitted
    \/ AddNoteCancelled
    \/ StartEdit
    \/ EditRejected
    \/ EditSubmitted
    \/ EditCancelled
    \/ StartRecategorize
    \/ RecategorizeCategoryChosen
    \/ RecategorizeCategoryCancelled
    \/ RecategorizeRejected
    \/ RecategorizeAlertClosed
    \/ RecategorizeSubmitted
    \/ RecategorizeBack

Spec == Init /\ [][Next]_vars

----------------------------------------------------------------------------
(* Codec harness: a list of sub-records is built, encoded (by the          *)
(* serializer, or written in the older 3-field notation) and decoded.      *)

Shapes == {"Replacement", "Inspection", "Tensioning", "Install"}

\* the characters typed into text fields: the delimiters of the notation and
\* one plain character; never the single quote
TextChars == {"x", ";", ",", "(", ")"}

TextFields(shape) ==
    CASE shape = "Replacement" ->
             {"removed_serial_number", "added_serial_number", "stack_symptom"}
      [] shape = "Install" -> {"serial_number"}
      [] OTHER -> {"serial_number", "insight"}

NewItem(shape, id, flag) ==
    CASE shape = "Replacement" ->
             [identifier |-> <<id>>, removed_serial_number |-> <<>>,
              added_serial_number |-> <<>>, stack_symptom |-> <<>>,
              stack_symptom_confirmed |-> flag]
      [] shape = "Install" -> [identifier |-> <<id>>, serial_number |-> <<>>]
      [] OTHER -> [identifier |-> <<id>>, serial_number |-> <<>>,
                   insight |-> <<>>, completed |-> flag]

RECURSIVE SumLen(_)
SumLen(ss) == IF ss = <<>> THEN 0 ELSE Len(Head(ss)) + SumLen(Tail(ss))

\* the characters typed so far into the text fields of a list of one shape
CharsUsed(shape, items) ==
    LET n == Len(items)
    IN  CASE shape = "Replacement" ->
                 SumLen([k \in 1..n |-> items[k].removed_serial_number
                                        \o items[k].added_serial_number
                                        \o items[k].stack_symptom])
          [] shape = "Install" -> SumLen([k \in 1..n |-> items[k].serial_number])
          [] OTHER -> SumLen([k \in 1..n |-> items[k].serial_number \o items[k].insight])

HasChar(shape, items, c) ==
    \E k \in 1..Len(items) : \E f \in TextFields(shape) :
        \E j \in 1..Len(items[k][f]) : items[k][f][j] = c

\* the older notation of an inspection or tensioning: no completed flag
LegacyText(i) == TupleText(<<i.identifier, i.serial_number, i.insight>>)

\* a stored string in which the tuples marked "old" are in the older notation
MixedText(items, fmt) ==
    Join([k \in 1..Len(items) |->
            IF fmt[k] = "old" THEN LegacyText(items[k]) ELSE InspectionText(items[k])],
         <<";">>) \o <<";">>

serializeShape(shape, items) ==
    CASE shape = "Replacement" -> serializeStackReplacements(items)
      [] shape = "Inspection" -> serializeStackInspections(items)
      [] shape = "Tensioning" -> serializeStackTensioning(items)
      [] OTHER -> serializeStackInstalls(items)

parseShape(shape, raw) ==
    CASE shape = "Replacement" -> parseStackReplacements(raw)
      [] shape = "Inspection" -> parseStackInspections(raw)
      [] shape = "Tensioning" -> parseStackTensioning(raw)
      [] OTHER -> parseStackInstalls(raw)

\* the identifiers the harness draws from, in any order; the codec treats an
\* identifier as an opaque text
CodecIds == {"a", "b", "c"}

InitCodec ==
    /\ cShape \in Shapes
    /\ cItems = <<>>
    /\ cFmt = <<>>
    /\ cPhase = "build"
    /\ cRaw = JNull
    /\ cOut = <<>>
    /\ userIsPlugPower = TRUE
    /\ activeStackCount = 5
    /\ FlowsIdle
    /\ ApplyIdle

\* one more sub-record, its identifier not yet in the list
CodecAppend ==
    \E id \in CodecIds, flag \in BOOLEAN, f \in {"new", "old"} :
        /\ cPhase = "build"
        /\ Len(cItems) < MaxItems
        /\ \A k \in 1..Len(cItems) : cItems[k].identifier # <<id>>
        /\ cShape = "Install" => ~flag
        /\ f = "old" => cShape \in {"Inspection", "Tensioning"} /\ ~flag
        /\ cItems' = Append(cItems, NewItem(cShape, id, flag))
        /\ cFmt' = Append(cFmt, f)
        /\ UNCHANGED <<cShape, cPhase, cRaw, cOut, envVars, flowVars, applyVars>>

\* one more character in a text field of the last sub-record
CodecType ==
    \E f \in TextFields(cShape), c \in TextChars :
        /\ cPhase = "build"
        /\ cItems # <<>>
        /\ CharsUsed(cShape, cItems) < MaxChars
        /\ cItems' = [cItems EXCEPT ![Len(cItems)][f] = Append(@, c)]
        /\ UNCHANGED <<cShape, cFmt, cPhase, cRaw, cOut, envVars, flowVars, applyVars>>

CodecSerialize ==
    /\ cPhase = "build"
    /\ \A k \in 1..Len(cFmt) : cFmt[k] = "new"
    /\ cRaw' = JStr(serializeShape(cShape, cItems))
    /\ cPhase' = "encoded"
    /\ UNCHANGED <<cShape, cItems, cFmt, cOut, envVars, flowVars, applyVars>>

CodecWriteLegacy ==
    /\ cPhase = "build"
    /\ \E k \in 1..Len(cFmt) : cFmt[k] = "old"
    /\ cRaw' = JStr(MixedText(cItems, cFmt))
    /\ cPhase' = "encoded"
    /\ UNCHANGED <<cShape, cItems, cFmt, cOut, envVars, flowVars, applyVars>>

CodecParse ==
    /\ cPhase = "encoded"
    /\ cOut' = parseShape(cShape, cRaw)
    /\ cPhase' = "decoded"
    /\ UNCHANGED <<cShape, cItems, cFmt, cRaw, envVars, flowVars, applyVars>>

NextCodec ==
    \/ CodecAppend
    \/ CodecType
    \/ CodecSerialize
    \/ CodecWriteLegacy
    \/ CodecParse

SpecCodec == InitCodec /\ [][NextCodec]_vars

----------------------------------------------------------------------------
(* Properties of the codec (under SpecCodec) *)

AllNew == \A k \in 1..Len(cFmt) : cFmt[k] = "new"

\* C1: for each of the four shapes, parsing the serialization of a list of
\* sub-records with unique identifiers, boolean flags and text fields over
\* ';' ',' '(' ')' and a plain character (never the single quote) gives the
\* list back, same order and same field values.
C1_RoundTrip ==
    (cPhase = "decoded" /\ AllNew) => cOut = cItems

\* C10: parseStackInspections on a string of three-field tuples returns one
\* record per tuple with the same identifier, serial and insight and
\* completed = false, and a string mixing three-field and four-field tuples
\* decodes every tuple in order (the fields holding no ';', the separator of
\* the tuples).
C10_LegacyInspection ==
    (/\ cPhase = "decoded"
     /\ cShape = "Inspection"
     /\ ~AllNew
     /\ ~HasChar(cShape, cItems, ";"))
    => /\ Len(cOut) = Len(cItems)
       /\ \A k \in 1..Len(cItems) :
            /\ cOut[k].identifier = cItems[k].identifier
            /\ cOut[k].serial_number = cItems[k].serial_number
            /\ cOut[k].insight = cItems[k].insight
            /\ cOut[k].completed = (IF cFmt[k] = "old" THEN FALSE ELSE cItems[k].completed)

\* a three-field tuple with a typed field, then a completed four-field tuple,
\* both decoded
C10_Witness ==
    /\ cPhase = "decoded"
    /\ cShape = "Inspection"
    /\ cFmt = <<"old", "new">>
    /\ Len(cOut) = 2
    /\ cItems[1].insight = <<",">>
    /\ cOut[1].insight = <<",">>
    /\ ~cOut[1].completed
    /\ cOut[2].completed

----------------------------------------------------------------------------
(* Properties of the flows (under Spec) *)

\* the handler f has made its request to notesService and is done
Requested(f) == flow = f /\ step = "exit" /\ lastCall.op # "none"

StackKeys == {"Stack replacements", "Stack inspection", "Stack tensioning", "Stack installs"}

\* C2: in the Recategorize flow, on a submission that passes validation, the
\* patch passed to notesService.edit holds an explicit null for every
\* category-owned field that the new category's serializeFormValue did not
\* produce with a non-null value, whatever the note was before.
C2_RecategorizeReset ==
    Requested("recategorize") =>
        LET produced == serializeFormValue(category[2], lastValue, activeStackCount)
        IN  \A k \in OwnedFields :
                (k \notin DOMAIN produced \/ produced[k] \in {JNull, JUndef})
                => (k \in DOMAIN lastCall.patch /\ lastCall.patch[k] = JNull)

\* a Stack replacements note recategorized to Calibration
C2_Witness ==
    /\ Requested("recategorize")
    /\ targetCategory = JSym("Stack replacements")
    /\ category = JSym("Calibration")
    /\ lastCall.patch[<<"stack_replacements">>] = JNull
    /\ lastCall.patch[<<"workorder_id">>] = JNull
    /\ lastCall.patch[<<"tag_numbers">>] = JList(<<JStr(<<"t">>)>>)

\* C3: after any sequence of Add, Edit and Recategorize flows on a store that
\* starts empty, every note of a stack category has exactly one of
\* stack_replacements, stack_inspections, stack_tensioning, stack_installs
\* non-null, and every note of another category has all four null.
C3_StackFieldInvariant ==
    \A n \in 1..Len(notes) :
        LET held == {k \in StackFields : notes[n][k] # JNull}
        IN  IF notes[n][<<"note_category">>][2] \in StackKeys
            THEN Cardinality(held) = 1
            ELSE held = {}

\* a Stack replacements note recategorized to Stack inspection
C3_Witness ==
    /\ Requested("recategorize")
    /\ targetCategory = JSym("Stack replacements")
    /\ notes[target][<<"note_category">>] = JSym("Stack inspection")
    /\ notes[target][<<"stack_inspections">>] # JNull
    /\ notes[target][<<"stack_replacements">>] = JNull

\* C4: in the Add, Edit and Recategorize flows, when the active category's
\* validate returns a message for the submitted form, neither notesService.add
\* nor notesService.edit is called for that submission and the stored notes
\* are unchanged.
C4_NoPersistenceOnValidationFailure ==
    [][LET active == IF flow = "edit" THEN targetCategory ELSE category
       IN  (/\ dialog = "form"
            /\ lastValue' # lastValue
            /\ HasConfig(active)
            /\ HasValidate(active[2])
            /\ IsTruthy(validate(active[2], lastValue', activeStackCount)))
           => (notes' = notes /\ nCalls' = nCalls /\ lastCall' = lastCall)]_vars

\* a Stack installs form with every serial blank, submitted in the Add flow
C4_Witness ==
    /\ flow = "add"
    /\ dialog = "alert"
    /\ category = JSym("Stack installs")
    /\ IsTruthy(validate("Stack installs", lastValue, activeStackCount))
    /\ lastError = JSym("At least one stack install must be filled in.")
    /\ notes = <<>>
    /\ lastCall = NoCall

\* C5: in the Add flow, on a submission that passes validation, the patch
\* passed to notesService.add has note_category equal to the selected key and,
\* for every field the selected category's serializeFormValue produces,
\* exactly the value serializeFormValue returned for the submitted form.
C5_AddPatchContent ==
    Requested("add") =>
        LET produced == serializeFormValue(category[2], lastValue, activeStackCount)
        IN  /\ lastCall.patch[<<"note_category">>] = category
            /\ \A k \in DOMAIN produced : lastCall.patch[k] = produced[k]

\* C6: the Add flow starts in the category step; its only transitions are
\* category -> note when a category is chosen, category -> exit on cancel,
\* note -> exit on a submission that passes validation (with the record
\* created through notesService.add on that transition), note -> note on a
\* submission that fails validation, and note -> category on cancel; the note
\* step is never prompted without a chosen category.
C6_AddStateMachine ==
    /\ []((flow = "add" /\ step = "note") => IsTruthy(category))
    /\ [][flow' = "add" =>
            IF flow # "add" \/ step = "exit"
            THEN step' = "category"
            ELSE LET fails == /\ HasValidate(category[2])
                              /\ IsTruthy(validate(category[2], lastValue', activeStackCount))
                 IN  \/ /\ step = "category" /\ step' = "note"
                        /\ IsTruthy(category')
                        /\ notes' = notes /\ nCalls' = nCalls
                     \/ /\ step = "category" /\ step' = "exit"
                        /\ notes' = notes /\ nCalls' = nCalls
                     \/ /\ step = "note" /\ step' = "exit"
                        /\ ~fails
                        /\ nCalls' = nCalls + 1
                        /\ lastCall'.op = "add"
                        /\ Len(notes') = Len(notes) + 1
                     \/ /\ step = "note" /\ step' = "note"
                        /\ dialog = "form" /\ dialog' = "alert"
                        /\ fails
                        /\ notes' = notes /\ nCalls' = nCalls
                     \/ /\ step = "note" /\ step' = "note"
                        /\ dialog = "alert" /\ dialog' = "form"
                        /\ notes' = notes /\ nCalls' = nCalls
                     \/ /\ step = "note" /\ step' = "category"
                        /\ notes' = notes /\ nCalls' = nCalls]_vars

\* an Add flow that reached exit from the note step, its record created
C6_Witness ==
    /\ Requested("add")
    /\ IsTruthy(category)
    /\ nCalls = 1
    /\ lastCall.op = "add"
    /\ Len(notes) = 1
    /\ notes[1][<<"note_category">>] = category

\* C7: the Recategorize flow starts in select_category; its only transitions
\* are select_category -> fill_new_fields when a category is chosen,
\* select_category -> exit on cancel, fill_new_fields -> exit on a submission
\* that passes validation (with one notesService.edit request on that
\* transition), fill_new_fields -> fill_new_fields on a submission that fails
\* validation, and fill_new_fields -> select_category on cancel.
C7_RecategorizeStateMachine ==
    [][flow' = "recategorize" =>
        IF flow # "recategorize" \/ step = "exit"
        THEN step' = "select_category"
        ELSE LET fails == /\ HasValidate(category[2])
                          /\ IsTruthy(validate(category[2], lastValue', activeStackCount))
             IN  \/ /\ step = "select_category" /\ step' = "fill_new_fields"
                    /\ IsTruthy(category')
                    /\ notes' = notes /\ nCalls' = nCalls
                 \/ /\ step = "select_category" /\ step' = "exit"
                    /\ notes' = notes /\ nCalls' = nCalls
                 \/ /\ step = "fill_new_fields" /\ step' = "exit"
                    /\ ~fails
                    /\ nCalls' = nCalls + 1
                    /\ lastCall'.op = "edit"
                    /\ lastCall'.id = target
                    /\ Len(notes') = Len(notes)
                 \/ /\ step = "fill_new_fields" /\ step' = "fill_new_fields"
                    /\ dialog = "form" /\ dialog' = "alert"
                    /\ fails
                    /\ notes' = notes /\ nCalls' = nCalls
                 \/ /\ step = "fill_new_fields" /\ step' = "fill_new_fields"
                    /\ dialog = "alert" /\ dialog' = "form"
                    /\ notes' = notes /\ nCalls' = nCalls
                 \/ /\ step = "fill_new_fields" /\ step' = "select_category"
                    /\ notes' = notes /\ nCalls' = nCalls]_vars

\* a Recategorize flow that made its one request, to another category
C7_Witness ==
    /\ Requested("recategorize")
    /\ nCalls = 1
    /\ lastCall.op = "edit"
    /\ lastCall.id = target
    /\ category # targetCategory
    /\ notes[target][<<"note_category">>] = category

\* C8: when the submitted performed_on is absent, empty or no parseable ISO
\* instant, the patch passed to persistence by the Add flow and by the
\* Recategorize flow has no performed_on key, and the flow still completes;
\* when it is parseable the patch holds its epoch-milliseconds value.
C8_UnparseablePerformedOn ==
    (Requested("add") \/ Requested("recategorize")) =>
        LET text == Get(lastValue, <<"performed_on">>)
        IN  IF text # JUndef /\ fromISO(text[2]).isValid
            THEN /\ <<"performed_on">> \in DOMAIN lastCall.patch
                 /\ lastCall.patch[<<"performed_on">>] = JNum(fromISO(text[2]).ms)
            ELSE <<"performed_on">> \notin DOMAIN lastCall.patch

\* an Add flow completed with a performed_on that is no ISO instant
C8_Witness ==
    /\ Requested("add")
    /\ Get(lastValue, <<"performed_on">>) = JSym("not-a-date")
    /\ <<"performed_on">> \notin DOMAIN lastCall.patch
    /\ Len(notes) = 1

\* C9: when the performed_on submitted in the Edit dialog is present but no
\* parseable ISO instant, the patch passed to notesService.edit has no
\* performed_on field.
C9_EditUnparseablePerformedOn ==
    (/\ Requested("edit")
     /\ IsTruthy(Get(lastValue, <<"performed_on">>))
     /\ ~fromISO(Get(lastValue, <<"performed_on">>)[2]).isValid)
    => <<"performed_on">> \notin DOMAIN lastCall.patch

\* C11: parseStackTensioning on a string of three-field tuples returns one
\* record per tuple with the same identifier, serial and insight and
\* completed = false (the fields holding no ';').
C11_LegacyTensioning ==
    (/\ cPhase = "decoded"
     /\ cShape = "Tensioning"
     /\ ~AllNew
     /\ ~HasChar(cShape, cItems, ";"))
    => /\ Len(cOut) = Len(cItems)
       /\ \A k \in 1..Len(cItems) :
            /\ cOut[k].identifier = cItems[k].identifier
            /\ cOut[k].serial_number = cItems[k].serial_number
            /\ cOut[k].insight = cItems[k].insight
            /\ cOut[k].completed = (IF cFmt[k] = "old" THEN FALSE ELSE cItems[k].completed)

\* C13: each of the four serializers applied to the empty list yields null,
\* never a string; the trailing ';' is appended to non-empty output only.
C13_EmptyListEncoding ==
    (cPhase = "encoded" /\ cItems = <<>>) => cRaw = JNull

----------------------------------------------------------------------------
(* The parsers on strings that hold segments of every kind *)

\* the kinds of segment: a tuple of the shape, a tuple in the older notation
\* (Inspection), a tuple cut before its closing quote and parenthesis, a
\* tuple of another shape, a blank and a plain text
SegmentKinds(shape) ==
    {"new", "cut", "foreign", "blank", "text"}
    \cup (IF shape = "Inspection" THEN {"old"} ELSE {})

ShapeText(shape, i) ==
    CASE shape = "Replacement" -> ReplacementText(i)
      [] shape = "Install" -> InstallText(i)
      [] OTHER -> InspectionText(i)

SegmentText(shape, i, kind) ==
    CASE kind = "new" -> ShapeText(shape, i)
      [] kind = "old" -> LegacyText(i)
      [] kind = "cut" -> SubSeq(ShapeText(shape, i), 1, Len(ShapeText(shape, i)) - 2)
      [] kind = "foreign" ->
             IF shape = "Install"
             THEN TupleText(<<i.identifier, <<"s">>, <<>>>>)
             ELSE TupleText(<<i.identifier, <<"s">>>>)
      [] kind = "blank" -> <<" ">>
      [] OTHER -> <<"x">>

\* the segments joined by ';', with or without a ';' at the end
SegmentsText(shape, items, kinds, closed) ==
    Join([k \in 1..Len(items) |-> SegmentText(shape, items[k], kinds[k])], <<";">>)
    \o (IF closed THEN <<";">> ELSE <<>>)

WithSerial(shape, i, serial) ==
    IF shape = "Replacement"
    THEN [i EXCEPT !.removed_serial_number = serial]
    ELSE [i EXCEPT !.serial_number = serial]

\* one more segment, its identifier not yet in the list
SegAppend ==
    \E id \in CodecIds, flag \in BOOLEAN, serial \in {<<>>, <<"s">>},
       kind \in SegmentKinds(cShape) :
        /\ cPhase = "build"
        /\ Len(cItems) < MaxItems
        /\ \A k \in 1..Len(cItems) : cItems[k].identifier # <<id>>
        /\ (cShape = "Install" \/ kind = "old") => ~flag
        /\ kind \in {"foreign", "blank", "text"} => (~flag /\ serial = <<>>)
        /\ cItems' = Append(cItems, WithSerial(cShape, NewItem(cShape, id, flag), serial))
        /\ cFmt' = Append(cFmt, kind)
        /\ UNCHANGED <<cShape, cPhase, cRaw, cOut, envVars, flowVars, applyVars>>

SegWrite ==
    \E closed \in BOOLEAN :
        /\ cPhase = "build"
        /\ cRaw' = JStr(SegmentsText(cShape, cItems, cFmt, closed))
        /\ cPhase' = "encoded"
        /\ UNCHANGED <<cShape, cItems, cFmt, cOut, envVars, flowVars, applyVars>>

NextSegments ==
    \/ SegAppend
    \/ SegWrite
    \/ CodecParse

SpecSegments == InitCodec /\ [][NextSegments]_vars

RECURSIVE WellFormedOnly(_, _)
\* the sub-records whose segment is a tuple of the shape, in order
WellFormedOnly(items, kinds) ==
    IF items = <<>> THEN <<>>
    ELSE (IF Head(kinds) \in {"new", "old"} THEN <<Head(items)>> ELSE <<>>)
         \o WellFormedOnly(Tail(items), Tail(kinds))

\* C12: for each of the four parsers, a ';'-joined string decodes, in segment
\* order, to exactly one sub-record for every segment that is a well-formed
\* tuple of the shape and to nothing for blank segments and segments that
\* match no pattern; a malformed segment, wherever it stands, raises no error
\* and neither loses nor alters a well-formed sibling.
C12_MalformedSegmentTolerance ==
    cPhase = "decoded" => cOut = WellFormedOnly(cItems, cFmt)

\* a cut tuple before a well-formed tuple, the well-formed one decoded
C12_Witness ==
    /\ cPhase = "decoded"
    /\ Len(cItems) = 2
    /\ cFmt = <<"cut", "new">>
    /\ cOut = <<cItems[2]>>

----------------------------------------------------------------------------
(* The extractors and the registry lookups applied on their own *)

\* what a raw form value can hold in the group of one identifier: each field
\* missing, empty or filled, an install serial also typed with the separator
ExtractGroups(shape, id) ==
    LET text(key, vs) == {EmptyObject} \cup {[k \in {<<key, id>>} |-> JStr(v)] : v \in vs}
        flag(key) == {EmptyObject, [k \in {<<key, id>>} |-> JBool(TRUE)]}
    IN  CASE shape = "Replacement" ->
                 {r @@ a @@ s :
                    r \in text("removed_serial_number_", {<<>>, <<"s">>}),
                    a \in text("added_serial_number_", {<<"s">>}),
                    s \in {EmptyObject,
                           (<<"stack_symptom_", id>> :> JStr(<<"x">>))
                           @@ (<<"stack_symptom_confirmed_", id>> :> JBool(TRUE))}}
          [] shape = "Install" ->
                 text("stack_serial_number_", {<<>>, <<"s">>, <<"s", ";", id, ";", "t">>})
          [] OTHER ->
                 {r @@ i @@ c :
                    r \in text("stack_serial_number_", {<<>>, <<"s">>}),
                    i \in text("insight_", {<<"x">>}),
                    c \in flag("stack_completed_")}

ShapePrefix(shape) ==
    CASE shape = "Replacement" -> "stack_group_"
      [] shape = "Inspection" -> "stack_group_inspection_"
      [] shape = "Tensioning" -> "stack_group_tensioning_"
      [] OTHER -> "stack_group_installs_"

extractShape(shape, value, stackCount) ==
    CASE shape = "Replacement" -> extractStackReplacementsFromForm(value, stackCount)
      [] shape = "Inspection" -> extractStackInspectionsFromForm(value, stackCount)
      [] shape = "Tensioning" -> extractStackTensioningFromForm(value, stackCount)
      [] OTHER -> extractStackInstallsFromForm(value, stackCount)

\* the keys getCategoryDisplayLabel is asked about: the registered ones, an
\* unregistered one, a registered one in another case, the empty string, null
LabelKeys ==
    {JSym(CATEGORY_CONFIGS[k].value) : k \in 1..Len(CATEGORY_CONFIGS)}
    \cup {JSym("Legacy category"), JSym("calibration"), JSym(""), JNull}

InitApply ==
    /\ cShape \in Shapes
    /\ cItems = <<>>
    /\ cFmt = <<>>
    /\ cPhase = "build"
    /\ cRaw = JNull
    /\ cOut = <<>>
    /\ userIsPlugPower = TRUE
    /\ activeStackCount \in 1..Len(ALL_STACK_IDENTIFIERS)
    /\ FlowsIdle
    /\ ApplyIdle

\* the raw form value gets the group of one more identifier, or null in its
\* place
ApplySetGroup ==
    \E k \in 1..Len(ALL_STACK_IDENTIFIERS) :
        \E g \in {JGroup(h) : h \in ExtractGroups(cShape, ALL_STACK_IDENTIFIERS[k])} \cup {JNull} :
            /\ xPhase = "build"
            /\ Cardinality(DOMAIN xValue) < MaxGroups
            /\ <<ShapePrefix(cShape), ALL_STACK_IDENTIFIERS[k]>> \notin DOMAIN xValue
            /\ xValue' = xValue @@ (<<ShapePrefix(cShape), ALL_STACK_IDENTIFIERS[k]>> :> g)
            /\ UNCHANGED <<xOut, xPhase, codecVars, envVars, flowVars>>

ApplyExtract ==
    /\ xPhase = "build"
    /\ xOut' = extractShape(cShape, xValue, activeStackCount)
    /\ xPhase' = "extracted"
    /\ UNCHANGED <<xValue, codecVars, envVars, flowVars>>

ApplyOptions ==
    \E isPlug \in BOOLEAN :
        /\ xPhase = "build"
        /\ xValue = EmptyObject
        /\ xValue' = JBool(isPlug)
        /\ xOut' = getCategoryOptions(isPlug)
        /\ xPhase' = "options"
        /\ UNCHANGED <<codecVars, envVars, flowVars>>

ApplyLabel ==
    \E key \in LabelKeys :
        /\ xPhase = "build"
        /\ xValue = EmptyObject
        /\ xValue' = key
        /\ xOut' = getCategoryDisplayLabel(key)
        /\ xPhase' = "label"
        /\ UNCHANGED <<codecVars, envVars, flowVars>>

\* the category whose form holds the groups of a shape
ShapeKey(shape) ==
    CASE shape = "Replacement" -> "Stack replacements"
      [] shape = "Inspection" -> "Stack inspection"
      [] shape = "Tensioning" -> "Stack tensioning"
      [] OTHER -> "Stack installs"

\* config.validate and config.serializeFormValue on the raw form value
ApplySerialize ==
    /\ xPhase = "build"
    /\ xOut' = [error |-> validate(ShapeKey(cShape), xValue, activeStackCount),
                serialized |-> serializeFormValue(ShapeKey(cShape), xValue,
                                                  activeStackCount)]
    /\ xPhase' = "serialized"
    /\ UNCHANGED <<xValue, codecVars, envVars, flowVars>>

NextApply ==
    \/ ApplySetGroup
    \/ ApplyExtract
    \/ ApplySerialize
    \/ ApplyOptions
    \/ ApplyLabel

SpecApply == InitApply /\ [][NextApply]_vars

----------------------------------------------------------------------------
(* C14 *)

\* the group of one identifier in the raw form value, empty when the group is
\* missing or null
GroupIn(value, shape, id) ==
    IF <<ShapePrefix(shape), id>> \in DOMAIN value
       /\ value[<<ShapePrefix(shape), id>>] # JNull
    THEN value[<<ShapePrefix(shape), id>>][2]
    ELSE EmptyObject

\* the text a group holds under one field, empty when the field is missing
TextIn(group, key, id) ==
    IF <<key, id>> \in DOMAIN group THEN group[<<key, id>>][2] ELSE <<>>

\* whether a group has its checkbox ticked
TickedIn(group, key, id) ==
    <<key, id>> \in DOMAIN group /\ group[<<key, id>>] = JBool(TRUE)

\* the sub-record the presence rule expects of one group
ExpectedRecord(shape, group, id) ==
    CASE shape = "Replacement" ->
             [identifier |-> <<id>>,
              removed_serial_number |-> TextIn(group, "removed_serial_number_", id),
              added_serial_number |-> TextIn(group, "added_serial_number_", id),
              stack_symptom |-> TextIn(group, "stack_symptom_", id),
              stack_symptom_confirmed |-> TickedIn(group, "stack_symptom_confirmed_", id)]
      [] shape = "Install" ->
             [identifier |-> <<id>>,
              serial_number |-> TextIn(group, "stack_serial_number_", id)]
      [] OTHER ->
             [identifier |-> <<id>>,
              serial_number |-> TextIn(group, "stack_serial_number_", id),
              insight |-> TextIn(group, "insight_", id),
              completed |-> TickedIn(group, "stack_completed_", id)]

\* whether a group holds a non-empty presence-determining field
HoldsPresence(shape, group, id) ==
    CASE shape = "Replacement" ->
             \/ TextIn(group, "removed_serial_number_", id) # <<>>
             \/ TextIn(group, "added_serial_number_", id) # <<>>
      [] shape = "Install" -> TextIn(group, "stack_serial_number_", id) # <<>>
      [] OTHER ->
             \/ TextIn(group, "stack_serial_number_", id) # <<>>
             \/ TextIn(group, "insight_", id) # <<>>

\* C14: for every raw form value and every stack count n in 1..5, an extractor
\* emits a sub-record for identifier i if and only if i is among the first n
\* letters of a..e and i's group holds a non-empty presence-determining field
\* (Replacement: removed or added serial; Inspection and Tensioning: serial or
\* insight; Install: serial); the sub-records stand in identifier order, carry
\* the fields of their group, and a missing field reads as the empty string or
\* false.
C14_ExtractionPresence ==
    xPhase = "extracted" =>
        /\ \A k \in 1..Len(ALL_STACK_IDENTIFIERS) :
               LET id == ALL_STACK_IDENTIFIERS[k]
                   group == GroupIn(xValue, cShape, id)
                   at == {j \in 1..Len(xOut) : xOut[j].identifier = <<id>>}
               IN  IF k <= activeStackCount /\ HoldsPresence(cShape, group, id)
                   THEN /\ Cardinality(at) = 1
                        /\ \A j \in at : xOut[j] = ExpectedRecord(cShape, group, id)
                   ELSE at = {}
        /\ \A i, j \in 1..Len(xOut) :
               i < j => \E a, b \in 1..Len(ALL_STACK_IDENTIFIERS) :
                            /\ a < b
                            /\ xOut[i].identifier = <<ALL_STACK_IDENTIFIERS[a]>>
                            /\ xOut[j].identifier = <<ALL_STACK_IDENTIFIERS[b]>>

\* two stacks, the group of a with a symptom and a ticked checkbox and no
\* serial, the group of b with only its added serial: one sub-record, of b,
\* with the defaults in its other fields
C14_Witness ==
    /\ xPhase = "extracted"
    /\ cShape = "Replacement"
    /\ activeStackCount = 2
    /\ GroupIn(xValue, cShape, "a") =
           (<<"stack_symptom_", "a">> :> JStr(<<"x">>))
           @@ (<<"stack_symptom_confirmed_", "a">> :> JBool(TRUE))
    /\ DOMAIN GroupIn(xValue, cShape, "b") = {<<"added_serial_number_", "b">>}
    /\ xOut = <<[identifier |-> <<"b">>, removed_serial_number |-> <<>>,
                 added_serial_number |-> <<"s">>, stack_symptom |-> <<>>,
                 stack_symptom_confirmed |-> FALSE]>>

----------------------------------------------------------------------------
(* C15 *)

\* the positions in CATEGORY_CONFIGS of the categories a user may pick
Offered(isPlug) ==
    {k \in 1..Len(CATEGORY_CONFIGS) : isPlug \/ ~CATEGORY_CONFIGS[k].internalOnly}

\* C15: getCategoryOptions(false) returns exactly the registered categories
\* whose internalOnly flag is false and getCategoryOptions(true) returns all
\* of them; each entry is the {value, label} of its config and the entries
\* keep the registration order of CATEGORY_CONFIGS.
C15_RegistryFiltering ==
    xPhase = "options" =>
        LET offered == Offered(xValue = JBool(TRUE))
        IN  /\ Len(xOut) = Cardinality(offered)
            /\ \A k \in offered :
                   xOut[Cardinality({i \in offered : i <= k})] =
                       [value |-> CATEGORY_CONFIGS[k].value,
                        label |-> CATEGORY_CONFIGS[k].label]
            /\ (xValue = JBool(TRUE)) => Len(xOut) = Len(CATEGORY_CONFIGS)

\* the options of a user without internal access: the four public categories,
\* in registration order
C15_Witness ==
    /\ xPhase = "options"
    /\ xValue = JBool(FALSE)
    /\ [j \in 1..Len(xOut) |-> xOut[j].value] =
           <<"Calibration", "Software update", "Settings change", "Other">>

----------------------------------------------------------------------------
(* C16 *)

\* the registered configs whose value is exactly the key
Registered(key) ==
    {k \in 1..Len(CATEGORY_CONFIGS) :
        key[1] = "sym" /\ CATEGORY_CONFIGS[k].value = key[2]}

\* C16: getCategoryDisplayLabel(k) returns the label of the config whose value
\* equals k exactly when one is registered, otherwise the raw key k when it is
\* a non-empty string, otherwise the fixed string "Uncategorized" (for null or
\* empty k); the result is a non-empty string for every input.
C16_DisplayLabelFallback ==
    xPhase = "label" =>
        /\ \A k \in Registered(xValue) : xOut = CATEGORY_CONFIGS[k].label
        /\ (Registered(xValue) = {} /\ xValue[1] = "sym" /\ xValue[2] # "")
               => xOut = xValue[2]
        /\ (xValue = JNull \/ xValue = JSym("")) => xOut = "Uncategorized"
        /\ xOut # ""

\* a key that differs from a registered one only in case is no exact match and
\* comes back as it is
C16_Witness ==
    /\ xPhase = "label"
    /\ xValue = JSym("calibration")
    /\ Registered(xValue) = {}
    /\ xOut = "calibration"

----------------------------------------------------------------------------
(* C17 *)

----------------------------------------------------------------------------
(* C18 *)

----------------------------------------------------------------------------
(* C20 *)

\* C20: every patch passed to notesService.add or notesService.edit by the
\* Add, Edit and Recategorize flows contains only keys that are fields of the
\* flat Note record; the nested per-identifier form groups and other form-only
\* keys never reach persistence.
C20_FlatPatches ==
    lastCall.op # "none" => DOMAIN lastCall.patch \subseteq NoteFields

----------------------------------------------------------------------------
(* C19 *)

\* a dialog of a running flow is answered without a form being submitted
NoSubmission == ~Idle /\ lastValue' = EmptyObject

\* the step a cancel at the fill step leads to
StepBefore(s) ==
    CASE s = "note" -> "category"
      [] s = "fill_new_fields" -> "select_category"
      [] OTHER -> "exit"

\* C19: cancelling the Edit dialog ends the Edit flow with no call to
\* notesService.edit; in Add and Recategorize a cancel at the fill step returns
\* to the select step and a cancel at the select step ends the flow; a step in
\* which no form is submitted calls neither notesService.add nor
\* notesService.edit and leaves every stored note unchanged, so a run with a
\* call is a run in which a fill-step form was submitted.
C19_CancelNoSideEffect ==
    /\ []((nCalls > 0 \/ lastCall.op # "none") => lastValue # EmptyObject)
    /\ [][/\ NoSubmission =>
               (notes' = notes /\ nCalls' = nCalls /\ lastCall' = lastCall)
          /\ (NoSubmission /\ dialog = "form"
                 /\ step \in {"edit", "note", "fill_new_fields"})
               => step' = StepBefore(step)
          /\ (dialog = "form" /\ step \in {"category", "select_category"}
                 /\ dialog' = "none")
               => (step' = "exit" /\ category' = category)]_vars

\* a Recategorize run over a stored note that picked a category, went back
\* from the fill step and was cancelled at the select step: no call made
C19_Witness ==
    /\ flow = "recategorize"
    /\ step = "exit"
    /\ category # JNull
    /\ notes # <<>>
    /\ nCalls = 0
    /\ lastCall = NoCall

----------------------------------------------------------------------------
(* Edit and Recategorize on a stored note of a category the registry does    *)
(* not know                                                                  *)

\* the category keys of old records: none, and one the registry has dropped
LegacyCategories == {JNull, JSym("Legacy category")}

LegacyNote(noteCategory) ==
    [k \in StoredFields |-> IF k = <<"note_category">> THEN noteCategory ELSE JNull]

InitLegacy ==
    /\ userIsPlugPower \in BOOLEAN
    /\ activeStackCount \in StackCounts
    /\ notes \in {<<LegacyNote(c)>> : c \in LegacyCategories}
    /\ flow = "none"
    /\ step = "exit"
    /\ dialog = "none"
    /\ category = JNull
    /\ target = 0
    /\ targetCategory = JNull
    /\ lastValue = EmptyObject
    /\ lastError = JNull
    /\ lastCall = NoCall
    /\ nCalls = 0
    /\ initialValue = JUndef
    /\ CodecIdle
    /\ ApplyIdle

NextLegacy ==
    \/ StartEdit
    \/ EditRejected
    \/ EditSubmitted
    \/ EditCancelled
    \/ StartRecategorize
    \/ RecategorizeCategoryChosen
    \/ RecategorizeCategoryCancelled
    \/ RecategorizeRejected
    \/ RecategorizeAlertClosed
    \/ RecategorizeSubmitted
    \/ RecategorizeBack

SpecLegacy == InitLegacy /\ [][NextLegacy]_vars

----------------------------------------------------------------------------
(* C21 *)

\* the flow runs on a note whose category has no config
UnknownTarget == target # 0 /\ ~HasConfig(targetCategory)

\* the label an unknown category falls back to
FallbackLabel(noteCategory) ==
    IF noteCategory = JNull THEN "Uncategorized" ELSE noteCategory[2]

\* C21: for a note whose note_category is null or a key not in the registry,
\* the Edit flow and the Recategorize flow run without failing: the label is
\* the raw key or "Uncategorized"; the edit form holds only the date field and
\* the shared description and visibility fields; no category validation blocks
\* an edit submission; and the edit patch holds nothing but the submitted
\* fields, its performed_on turned into a timestamp; a recategorization of the
\* note passes and writes the new category.
C21_UnknownCategoryDegrades ==
    UnknownTarget =>
        /\ getCategoryDisplayLabel(targetCategory) = FallbackLabel(targetCategory)
        /\ flow = "edit" =>
               /\ buildFullInputs(OrElse(targetCategory, JSym("Other")),
                                  activeStackCount, userIsPlugPower)
                      = <<<<"performed_on">>, <<"text">>>>
                        \o (IF userIsPlugPower THEN <<<<"external_note">>>> ELSE <<>>)
               /\ lastError = JNull
               /\ dialog # "alert"
               /\ (step = "exit" /\ lastValue # EmptyObject) =>
                      /\ lastCall.op = "edit"
                      /\ lastCall.id = target
                      /\ DOMAIN lastCall.patch \subseteq DOMAIN lastValue
                      /\ \A k \in DOMAIN lastCall.patch \ {<<"performed_on">>} :
                             lastCall.patch[k] = lastValue[k]
        /\ (flow = "recategorize" /\ step = "exit" /\ lastValue # EmptyObject) =>
               /\ lastCall.op = "edit"
               /\ lastCall.patch[<<"note_category">>] = category
               /\ notes[target][<<"note_category">>] = category

\* an edit of a note of a dropped category, submitted and sent
C21_Witness ==
    /\ flow = "edit"
    /\ targetCategory = JSym("Legacy category")
    /\ step = "exit"
    /\ lastCall.op = "edit"
    /\ <<"text">> \in DOMAIN lastCall.patch

----------------------------------------------------------------------------
(* Latest serial numbers: getLatestStackSerialNumbers over the note history *)

\* a history left in the order it is stored in
Unsorted(relevantNotes) == relevantNotes

RECURSIVE SortByRecency(_)
\* relevantNotes.sort((a, b) => dateB - dateA) with date = performed_on ||
\* created_on: most recent first, notes of one date in their stored order
SortByRecency(relevantNotes) ==
    IF relevantNotes = <<>> THEN <<>>
    ELSE LET date(n) == OrElse(n[<<"performed_on">>], n[<<"created_on">>])[2]
             last == relevantNotes[Len(relevantNotes)]
             rest == SortByRecency(SubSeq(relevantNotes, 1, Len(relevantNotes) - 1))
             ahead == {k \in 1..Len(rest) : date(rest[k]) >= date(last)}
         IN  SubSeq(rest, 1, Cardinality(ahead)) \o <<last>>
             \o SubSeq(rest, Cardinality(ahead) + 1, Len(rest))

\* the <<identifier, serial>> pairs one note is scanned for: the installs of a
\* Stack installs note, the added serials of a Stack replacements note
SerialItems(note) ==
    IF note[<<"note_category">>] = JSym("Stack installs")
       /\ Truthy(note[<<"stack_installs">>])
    THEN LET items == parseStackInstalls(note[<<"stack_installs">>])
         IN  [k \in 1..Len(items) |-> <<items[k].identifier, items[k].serial_number>>]
    ELSE IF note[<<"note_category">>] = JSym("Stack replacements")
            /\ Truthy(note[<<"stack_replacements">>])
    THEN LET items == parseStackReplacements(note[<<"stack_replacements">>])
         IN  [k \in 1..Len(items) |-> <<items[k].identifier, items[k].added_serial_number>>]
    ELSE <<>>

RECURSIVE ScanItems(_, _, _)
\* the inner loops: a needed identifier with a non-empty serial is set and is
\* needed no longer
ScanItems(items, k, found) ==
    IF k > Len(items) THEN found
    ELSE IF items[k][1] \in found.neededIdentifiers /\ items[k][2] # <<>>
    THEN ScanItems(items, k + 1,
                   [serialNumbers |-> found.serialNumbers @@ (items[k][1] :> items[k][2]),
                    neededIdentifiers |-> found.neededIdentifiers \ {items[k][1]}])
    ELSE ScanItems(items, k + 1, found)

RECURSIVE ScanNotes(_, _, _)
\* for (const note of relevantNotes) { if (neededIdentifiers.size === 0) break; ... }
ScanNotes(relevantNotes, k, found) ==
    IF k > Len(relevantNotes) \/ found.neededIdentifiers = {} THEN found.serialNumbers
    ELSE ScanNotes(relevantNotes, k + 1, ScanItems(SerialItems(relevantNotes[k]), 1, found))

\* getLatestStackSerialNumbers(), allNotes and getStackCount() made arguments
getLatestStackSerialNumbers(allNotes, stackCount) ==
    LET relevant(n) == n[<<"note_category">>] \in
                           {JSym("Stack installs"), JSym("Stack replacements")}
        relevantNotes == SortByRecency(SelectSeq(allNotes, relevant))
        ids == SubSeq(ALL_STACK_IDENTIFIERS, 1, stackCount)
    IN  ScanNotes(relevantNotes, 1,
                  [serialNumbers |-> <<>>,
                   neededIdentifiers |-> {<<ids[k]>> : k \in 1..Len(ids)}])

\* the dates of a stored note: performed_on missing or set, before or after
\* created_on
HistoryDates ==
    {(<<"performed_on">> :> p) @@ (<<"created_on">> :> JNum(c)) :
        <<p, c>> \in {<<JNull, 1>>, <<JNull, 3>>, <<JNum(2), 1>>, <<JNum(2), 4>>}}

\* the notes of a history: Stack installs and Stack replacements notes as the
\* serializers write them, a Stack installs note with no string, and a note of
\* another category
HistoryNotes ==
    LET install(id, serial) == [identifier |-> <<id>>, serial_number |-> <<serial>>]
        replacement(id, removed, added) ==
            [identifier |-> <<id>>, removed_serial_number |-> removed,
             added_serial_number |-> added, stack_symptom |-> <<>>,
             stack_symptom_confirmed |-> FALSE]
        installs(items) ==
            (<<"note_category">> :> JSym("Stack installs"))
            @@ (<<"stack_installs">> :> items) @@ (<<"stack_replacements">> :> JNull)
        replacements(items) ==
            (<<"note_category">> :> JSym("Stack replacements"))
            @@ (<<"stack_installs">> :> JNull)
            @@ (<<"stack_replacements">> :> JStr(serializeStackReplacements(items)))
        contents ==
            {installs(JNull),
             installs(JStr(serializeStackInstalls(<<install("a", "s")>>))),
             installs(JStr(serializeStackInstalls(<<install("a", "t"), install("b", "v")>>))),
             installs(JStr(serializeStackInstalls(<<install("e", "w")>>))),
             replacements(<<replacement("a", <<"r">>, <<"u">>)>>),
             replacements(<<replacement("a", <<"r">>, <<>>)>>),
             replacements(<<replacement("b", <<>>, <<"x">>)>>)}
    IN  {c @@ d : c \in contents, d \in HistoryDates}
        \cup {(<<"note_category">> :> JSym("Calibration"))
              @@ (<<"stack_installs">> :> JNull) @@ (<<"stack_replacements">> :> JNull)
              @@ (<<"performed_on">> :> JNum(5)) @@ (<<"created_on">> :> JNum(5))}

InitSerials ==
    /\ cShape = "Install"
    /\ cItems = <<>>
    /\ cFmt = <<>>
    /\ cPhase = "build"
    /\ cRaw = JNull
    /\ cOut = <<>>
    /\ userIsPlugPower = TRUE
    /\ activeStackCount \in StackCounts
    /\ FlowsIdle
    /\ ApplyIdle

\* one more note in the history, the newest in stored order
SerialsAddNote ==
    \E note \in HistoryNotes :
        /\ xPhase = "build"
        /\ Len(xValue) < MaxHistory
        /\ xValue' = Append(xValue, note)
        /\ UNCHANGED <<xOut, xPhase, codecVars, envVars, flowVars>>

SerialsLookup ==
    /\ xPhase = "build"
    /\ xOut' = getLatestStackSerialNumbers(xValue, activeStackCount)
    /\ xPhase' = "serials"
    /\ UNCHANGED <<xValue, codecVars, envVars, flowVars>>

NextSerials ==
    \/ SerialsAddNote
    \/ SerialsLookup

SpecSerials == InitSerials /\ [][NextSerials]_vars

----------------------------------------------------------------------------
(* C22 *)

\* the date a note counts with: performed_on, created_on when it has none
DateOf(note) ==
    IF note[<<"performed_on">>] \in {JNull, JNum(0)}
    THEN note[<<"created_on">>][2]
    ELSE note[<<"performed_on">>][2]

\* the non-empty serials a note records for an identifier: the install serial
\* of a Stack installs note, the added serial of a Stack replacements note
SerialsRecorded(note, id) ==
    LET installs == parseStackInstalls(note[<<"stack_installs">>])
        replacements == parseStackReplacements(note[<<"stack_replacements">>])
    IN  CASE note[<<"note_category">>] = JSym("Stack installs") ->
                 {installs[k].serial_number : k \in
                     {j \in 1..Len(installs) : installs[j].identifier = <<id>>}} \ {<<>>}
          [] note[<<"note_category">>] = JSym("Stack replacements") ->
                 {replacements[k].added_serial_number : k \in
                     {j \in 1..Len(replacements) : replacements[j].identifier = <<id>>}}
                 \ {<<>>}
          [] OTHER -> {}

\* the notes of the history that record a serial for an identifier, and the
\* most recent of them, the first stored one among notes of one date
Recording(history, id) ==
    {k \in 1..Len(history) : SerialsRecorded(history[k], id) # {}}

MostRecent(history, id) ==
    CHOOSE k \in Recording(history, id) :
        \A j \in Recording(history, id) :
            \/ DateOf(history[j]) < DateOf(history[k])
            \/ DateOf(history[j]) = DateOf(history[k]) /\ k <= j

\* C22: for every note history and active stack count n, getLatestSerials maps
\* each identifier among the first n letters of a..e to the non-empty serial
\* recorded for it in the most recent Stack installs / Stack replacements note
\* that records one, recency being performed_on and, without it, created_on;
\* identifiers with no such record and identifiers beyond the active count are
\* absent from the map.  The map is stated over the whole history, so the
\* early stop of the scan loses nothing.
C22_LatestSerials ==
    xPhase = "serials" =>
        /\ DOMAIN xOut =
               {<<ALL_STACK_IDENTIFIERS[k]>> : k \in
                   {j \in 1..Len(ALL_STACK_IDENTIFIERS) :
                       /\ j <= activeStackCount
                       /\ Recording(xValue, ALL_STACK_IDENTIFIERS[j]) # {}}}
        /\ \A k \in 1..Len(ALL_STACK_IDENTIFIERS) :
               <<ALL_STACK_IDENTIFIERS[k]>> \in DOMAIN xOut =>
                   xOut[<<ALL_STACK_IDENTIFIERS[k]>>] \in
                       SerialsRecorded(xValue[MostRecent(xValue, ALL_STACK_IDENTIFIERS[k])],
                                       ALL_STACK_IDENTIFIERS[k])

\* five stacks, an installs note for a and b stored first and a replacements
\* note for a, performed later, stored second: a has the added serial of the
\* replacement, b the install serial
C22_Witness ==
    /\ xPhase = "serials"
    /\ activeStackCount = 5
    /\ Len(xValue) = 2
    /\ xValue[1][<<"note_category">>] = JSym("Stack installs")
    /\ xValue[2][<<"note_category">>] = JSym("Stack replacements")
    /\ DateOf(xValue[1]) < DateOf(xValue[2])
    /\ xOut = (<<"a">> :> <<"u">>) @@ (<<"b">> :> <<"v">>)

----------------------------------------------------------------------------
(* C23 *)

\* C23: in the Recategorize flow, on a submission that passes validation, the
\* patch passed to notesService.edit is addressed to the original note's id,
\* has note_category equal to the newly selected category key and holds, for
\* every field the new category's serializeFormValue produces, exactly the
\* value it returned for the submitted form; tag_numbers, when the form
\* carried tags, is a list of strings.
C23_RecategorizePatchContent ==
    Requested("recategorize") =>
        LET produced == serializeFormValue(category[2], lastValue, activeStackCount)
            tags == Get(lastCall.patch, <<"tag_numbers">>)
        IN  /\ lastCall.op = "edit"
            /\ lastCall.id = target
            /\ Get(lastCall.patch, <<"note_category">>) = category
            /\ \A k \in DOMAIN produced : Get(lastCall.patch, k) = produced[k]
            /\ tags[1] = "list" => \A j \in 1..Len(tags[2]) : tags[2][j][1] = "str"

\* a note recategorized to Calibration with a tag object and a tag string
\* submitted: the patch lists both as strings
C23_Witness ==
    /\ Requested("recategorize")
    /\ category = JSym("Calibration")
    /\ <<"tag_numbers">> \in DOMAIN lastValue
    /\ Len(lastValue[<<"tag_numbers">>][2]) = 2
    /\ lastCall.patch[<<"tag_numbers">>] = JList(<<JStr(<<"t">>), JStr(<<"u">>)>>)

----------------------------------------------------------------------------
(* C24 *)

\* the stack field of a shape's category
StackFieldOf(shape) ==
    CASE shape = "Replacement" -> <<"stack_replacements">>
      [] shape = "Inspection" -> <<"stack_inspections">>
      [] shape = "Tensioning" -> <<"stack_tensioning">>
      [] OTHER -> <<"stack_installs">>

\* no group of an active identifier holds a presence-determining field
NothingFilled ==
    \A k \in 1..Len(ALL_STACK_IDENTIFIERS) :
        k <= activeStackCount =>
            ~HoldsPresence(cShape, GroupIn(xValue, cShape, ALL_STACK_IDENTIFIERS[k]),
                           ALL_STACK_IDENTIFIERS[k])

\* C24: for each of the four stack categories, serializeFormValue applied to a
\* form value that yields no sub-record returns null for the category's stack
\* field, never an empty string or a lone ';', and returns a string ending in
\* ';' whenever at least one sub-record is extracted; validate returns an
\* error message exactly when the serialized stack field is null.
C24_CategoryEmptyEncoding ==
    xPhase = "serialized" =>
        LET field == xOut.serialized[StackFieldOf(cShape)]
        IN  /\ NothingFilled => field = JNull
            /\ ~NothingFilled =>
                   /\ field[1] = "str"
                   /\ Len(field[2]) > 1
                   /\ field[2][Len(field[2])] = ";"
            /\ (xOut.error # JNull) <=> (field = JNull)

\* a Stack replacements form whose only group holds a symptom and a ticked
\* checkbox: stack_replacements is null and validate has a message
C24_Witness ==
    /\ xPhase = "serialized"
    /\ cShape = "Replacement"
    /\ DOMAIN GroupIn(xValue, cShape, "a") =
           {<<"stack_symptom_", "a">>, <<"stack_symptom_confirmed_", "a">>}
    /\ xOut.serialized[<<"stack_replacements">>] = JNull
    /\ xOut.error = JSym("At least one stack replacement must be filled in.")

----------------------------------------------------------------------------
(* C25 *)

\* the position of an identifier text in a..e, 0 for any other text
AlphabetIndex(identifier) ==
    IF \E k \in 1..Len(ALL_STACK_IDENTIFIERS) : identifier = <<ALL_STACK_IDENTIFIERS[k]>>
    THEN CHOOSE k \in 1..Len(ALL_STACK_IDENTIFIERS) : identifier = <<ALL_STACK_IDENTIFIERS[k]>>
    ELSE 0

\* C25: for every form value and stack count n in 1..5, the list returned by
\* each extractor holds at most one sub-record per identifier, only
\* identifiers among the first n letters of a..e, in alphabet order; and
\* every stack string written by serializeFormValue holds at most one tuple
\* per identifier.
C25_ExtractionKeyed ==
    /\ xPhase = "extracted" =>
           /\ \A j \in 1..Len(xOut) :
                  AlphabetIndex(xOut[j].identifier) \in 1..activeStackCount
           /\ \A i, j \in 1..Len(xOut) :
                  i < j => AlphabetIndex(xOut[i].identifier)
                               < AlphabetIndex(xOut[j].identifier)
    /\ xPhase = "serialized" =>
           LET tuples == parseShape(cShape, xOut.serialized[StackFieldOf(cShape)])
           IN  \A i, j \in 1..Len(tuples) :
                   i # j => tuples[i].identifier # tuples[j].identifier

\* three stacks, the groups of a and c filled: two sub-records, a before c
C25_Witness ==
    /\ xPhase = "extracted"
    /\ activeStackCount = 3
    /\ Len(xOut) = 2
    /\ xOut[1].identifier = <<"a">>
    /\ xOut[2].identifier = <<"c">>

----------------------------------------------------------------------------
(* A note written from a validated form, edited with nothing changed *)

\* the note notesService.add stores for a validated form of a stack category
WrittenNote(shape, value, count) ==
    ApplyPatch([k \in StoredFields |-> JNull],
               [k \in {<<"note_category">>} |-> JSym(ShapeKey(shape))]
               @@ serializeFormValue(ShapeKey(shape), value, count))

InitEdit ==
    /\ cShape \in Shapes
    /\ cItems = <<>>
    /\ cFmt = <<>>
    /\ cPhase = "build"
    /\ cRaw = JNull
    /\ cOut = <<>>
    /\ userIsPlugPower = TRUE
    /\ activeStackCount \in 1..Len(ALL_STACK_IDENTIFIERS)
    /\ FlowsIdle
    /\ ApplyIdle

\* the form passes validate and is stored at the active stack count; the note
\* is edited at a stack count of its own: getEditInitialValue, then validate
\* and serializeFormValue on that value as it is
EditUnchanged ==
    \E count \in 1..Len(ALL_STACK_IDENTIFIERS) :
        /\ xPhase = "build"
        /\ validate(ShapeKey(cShape), xValue, activeStackCount) = JNull
        /\ LET note == WrittenNote(cShape, xValue, activeStackCount)
               value == EditInitialValue(note)
           IN  xOut' = [count |-> count,
                        note |-> note,
                        error |-> validate(ShapeKey(cShape), value, count),
                        serialized |-> serializeFormValue(ShapeKey(cShape), value, count)]
        /\ xPhase' = "edited"
        /\ UNCHANGED <<xValue, codecVars, envVars, flowVars>>

NextEdit ==
    \/ ApplySetGroup
    \/ EditUnchanged

SpecEdit == InitEdit /\ [][NextEdit]_vars

----------------------------------------------------------------------------
(* C26 *)

\* C26: for a note whose stack field was written by its category's
\* serializeFormValue from a validated form at a stack count n in 1..5,
\* submitting the note's getEditInitialValue unchanged through validate and
\* serializeFormValue at the active stack count m in 1..5 passes validation
\* and yields a stack field that decodes to the same list of sub-records as
\* the stored one.  Stated for the notes whose stored string decodes to the
\* sub-records it was written from (no field holds the separator, the case of
\* C1).
C26_EditUnchangedPreserves ==
    (/\ xPhase = "edited"
     /\ parseShape(cShape, xOut.note[StackFieldOf(cShape)])
            = extractShape(cShape, xValue, activeStackCount)) =>
        /\ xOut.error = JNull
        /\ parseShape(cShape, xOut.serialized[StackFieldOf(cShape)])
               = parseShape(cShape, xOut.note[StackFieldOf(cShape)])

----------------------------------------------------------------------------
(* C27 *)

\* C27: in every patch passed to persistence by the Add flow or the
\* Recategorize flow run by a user without elevated access, external_note is
\* true whatever the submitted form contains; for a user with elevated access
\* it equals the submitted external_note, or false when the form carries none.
C27_VisibilityForced ==
    (Requested("add") \/ Requested("recategorize")) =>
        lastCall.patch[<<"external_note">>] =
            IF ~userIsPlugPower THEN JBool(TRUE)
            ELSE IF <<"external_note">> \in DOMAIN lastValue
                 THEN lastValue[<<"external_note">>]
                 ELSE JBool(FALSE)

\* a user without elevated access adds a note with a form that carries
\* external_note = false: the patch says true
C27_Witness ==
    /\ Requested("add")
    /\ ~userIsPlugPower
    /\ <<"external_note">> \in DOMAIN lastValue
    /\ lastValue[<<"external_note">>] = JBool(FALSE)
    /\ lastCall.patch[<<"external_note">>] = JBool(TRUE)

----------------------------------------------------------------------------
(* C28 *)

\* the keys of the configs whose internalOnly flag is set
InternalOnlyKeys ==
    {CATEGORY_CONFIGS[k].value : k \in
        {j \in 1..Len(CATEGORY_CONFIGS) : CATEGORY_CONFIGS[j].internalOnly}}

\* C28: in the Add and Recategorize flows run by a user without elevated
\* access, the select dialog returning only one of the offered options, the
\* note_category written to the patch is never the key of a config whose
\* internalOnly flag is set; nor is the category the flow carries from the
\* select step on.
C28_NoInternalCategoryForBasicUsers ==
    (~userIsPlugPower /\ flow \in {"add", "recategorize"}) =>
        /\ category # JNull => category[2] \notin InternalOnlyKeys
        /\ lastCall.op # "none" =>
               /\ lastCall.patch[<<"note_category">>][1] = "sym"
               /\ lastCall.patch[<<"note_category">>][2] \notin InternalOnlyKeys

\* a user without elevated access has recategorized a note to Software update
C28_Witness ==
    /\ ~userIsPlugPower
    /\ Requested("recategorize")
    /\ lastCall.patch[<<"note_category">>] = JSym("Software update")

----------------------------------------------------------------------------
(* C29 *)

\* the category whose validate the running flow consults
ValidatedCategory == IF flow = "edit" THEN targetCategory ELSE category

\* C29: a single run of the Add flow calls notesService.add at most once and
\* a single run of the Edit or Recategorize flow calls notesService.edit at
\* most once; the call happens only on a submission that passed validation,
\* the flow is done immediately after it, and no dialog is open afterwards.
C29_AtMostOneMutation ==
    /\ nCalls <= 1
    /\ nCalls = 0 <=> lastCall.op = "none"
    /\ nCalls = 1 =>
           /\ lastCall.op = IF flow = "add" THEN "add" ELSE "edit"
           /\ lastValue # EmptyObject
           /\ ~IsTruthy(ValidationError(ValidatedCategory, lastValue, activeStackCount))
           /\ step = "exit"
           /\ dialog = "none"

\* an Add run that has made its one call: the note is stored, the flow done
C29_Witness ==
    /\ flow = "add"
    /\ nCalls = 1
    /\ lastCall.op = "add"
    /\ step = "exit"
    /\ Len(notes) = 1

----------------------------------------------------------------------------
(* C30 *)

\* the fill dialog of a looping flow is open
AddFillOpen == flow = "add" /\ step = "note" /\ dialog = "form"
RecategorizeFillOpen ==
    flow = "recategorize" /\ step = "fill_new_fields" /\ dialog = "form"

\* an open fill dialog can always be submitted: some value of its form
\* passes validation (the other conjuncts of the submission are assignments)
FillCanBeSubmitted ==
    (AddFillOpen \/ RecategorizeFillOpen) =>
        \E value \in FormValues(category[2], activeStackCount, userIsPlugPower) :
            ~IsTruthy(ValidationError(category, value, activeStackCount))

\* a step of AddNoteSubmitted / RecategorizeSubmitted, told by its call: no
\* other action of these flows counts a call
AddSubmission == AddFillOpen /\ nCalls' = nCalls + 1
RecategorizeSubmission == RecategorizeFillOpen /\ nCalls' = nCalls + 1

\* The user of the looping flows. Every opened select dialog and alert is
\* answered (the awaited openFormDialog and openAlertDialog resolve): weak
\* fairness of the answering actions. A fill dialog that keeps being opened
\* is at some point submitted with a valid value, the user does not cancel
\* it or fail validation forever: strong fairness of the submission, with
\* its enabling condition written as the state predicate it equals.
UserFairness ==
    /\ WF_vars(AddCategoryChosen \/ AddCategoryCancelled)
    /\ WF_vars(AddAlertClosed)
    /\ []<>AddFillOpen => []<><<AddSubmission>>_vars
    /\ WF_vars(RecategorizeCategoryChosen \/ RecategorizeCategoryCancelled)
    /\ WF_vars(RecategorizeAlertClosed)
    /\ []<>RecategorizeFillOpen => []<><<RecategorizeSubmission>>_vars

\* the two flows that loop over their dialogs
NextLooping ==
    \/ StartAdd
    \/ AddCategoryChosen
    \/ AddCategoryCancelled
    \/ AddNoteRejected
    \/ AddAlertClosed
    \/ AddNoteSubmitted
    \/ AddNoteCancelled
    \/ StartRecategorize
    \/ RecategorizeCategoryChosen
    \/ RecategorizeCategoryCancelled
    \/ RecategorizeRejected
    \/ RecategorizeAlertClosed
    \/ RecategorizeSubmitted
    \/ RecategorizeBack

SpecFair == Init /\ [][NextLooping]_vars /\ UserFairness

LoopingFlows == {"add", "recategorize"}
SelectSteps == {"category", "select_category"}
FillSteps == {"note", "fill_new_fields"}

\* the two ways a looping flow leaves its while loop
EndsByCancelAtSelect ==
    /\ step \in SelectSteps
    /\ dialog = "form"
    /\ nCalls' = 0
    /\ lastCall' = NoCall
    /\ notes' = notes

EndsByOneCall ==
    /\ step \in FillSteps
    /\ dialog = "form"
    /\ nCalls = 0
    /\ nCalls' = 1
    /\ lastCall'.op = IF flow = "add" THEN "add" ELSE "edit"
    /\ ~IsTruthy(ValidationError(category, lastValue', activeStackCount))

\* C30: in the Add and Recategorize flows, when every opened dialog is
\* answered and the user does not cancel the fill step or fail validation
\* forever, the flow reaches its end; a run reaches its end either by a
\* cancel at the select step with no persistence call or by exactly one
\* persistence call after a valid submission, and in no other way.
C30_FlowsTerminate ==
    /\ (flow \in LoopingFlows /\ step # "exit") ~> (step = "exit")
    /\ [][(flow \in LoopingFlows /\ step # "exit" /\ step' = "exit")
              => (EndsByCancelAtSelect \/ EndsByOneCall)]_vars

\* a Recategorize run that went through the fill step and ended with its call
C30_Witness ==
    /\ flow = "recategorize"
    /\ step = "exit"
    /\ dialog = "none"
    /\ nCalls = 1
    /\ lastCall.op = "edit"
    /\ category # JNull

====
